---- MODULE Spec2Model ----
(***************************************************************************)
(* Astronomical computation and event-detection engine of                  *)
(* celestial-transit-data: the natal-chart function (src/unnamed/part_001) *)
(* and the transits function (src/supabase/functions/transits/index.ts).   *)
(*                                                                         *)
(* Number representation.  The source computes in IEEE doubles; the model  *)
(* computes the same expressions in exact fixed point:                     *)
(*   - an angle is an integer count of 1/20000 degree (Deg == 20000), the  *)
(*     resolution at which every sampled longitude j2000 + motion * dt is  *)
(*     exact when dt is a multiple of half a day;                          *)
(*   - a Julian day on the sampling grid is an integer count of half days  *)
(*     (JD 2451545.0 is 4903090);                                          *)
(*   - a Julian day inside a half-day bracket (the moon-phase bisection)   *)
(*     is a pair <<hd, fr>>: half day hd plus fr/Frac of a half day, and   *)
(*     an angle at such an instant is a pair <<q, f>>: q + f/Frac units;   *)
(*   - a value rounded by Math.round(x * 10^n) / 10^n is the integer       *)
(*     count of 10^-n it is rounded to.                                    *)
(* Rounding error of the doubles is not modelled, except where a result    *)
(* turns on it: norm next to zero (normDouble) and the sampling step at    *)
(* Julian Days of 2^52 and more (addDouble).                               *)
(***************************************************************************)
EXTENDS Integers, Sequences, FiniteSets, TLC

VARIABLES
    pc,     \* position of the running function
    fn,     \* the function being run
    args,   \* its arguments
    loc,    \* its local variables, named as in the source
    r,      \* the event list it builds
    ret     \* its return value

vars == <<pc, fn, args, loc, r, ret>>

---------------------------------------------------------------------------
(* Units *)

\* Two units per 1/10000 degree: the motions have four decimals and the
\* samples fall on half days.
Deg == 2 * 10000
\* Subdivisions of a half day inside a bisection bracket.
Frac == 2 ^ 12
Circle == 360 * Deg
HalfCircle == 180 * Deg

Abs(x) == IF x < 0 THEN -x ELSE x

\* Math.round(x / q): nearest integer, halves towards +infinity.
RoundDiv(x, q) == (2 * x + q) \div (2 * q)

\* Math.round(a * 100) / 100 of an angle, in hundredths of a degree.
Round2(a) == RoundDiv(a, Deg \div 100)

\* Math.round(a * 10) / 10 of an angle, in tenths of a degree.
Round1(a) == RoundDiv(a, Deg \div 10)

---------------------------------------------------------------------------
(* Constant tables *)

ZODIAC == <<"Aries", "Taurus", "Gemini", "Cancer", "Leo", "Virgo", "Libra",
            "Scorpio", "Sagittarius", "Capricorn", "Aquarius", "Pisces">>

\* motion: units per half day (degrees per day * 10000); j2000: units.
PLANETS(src) ==
    LET common ==
          [sun     |-> [name |-> "Sun",     motion |-> 9856,   j2000 |-> 5609200],
           moon    |-> [name |-> "Moon",    motion |-> 131760, j2000 |-> 4366400],
           mercury |-> [name |-> "Mercury", motion |-> 40920,  j2000 |-> 5045000],
           venus   |-> [name |-> "Venus",   motion |-> 16020,  j2000 |-> 3639600],
           mars    |-> [name |-> "Mars",    motion |-> 5240,   j2000 |-> 7109000],
           jupiter |-> [name |-> "Jupiter", motion |-> 831,    j2000 |-> 688000],
           saturn  |-> [name |-> "Saturn",  motion |-> 335,    j2000 |-> 998800],
           uranus  |-> [name |-> "Uranus",  motion |-> 117,    j2000 |-> 6264600],
           neptune |-> [name |-> "Neptune", motion |-> 60,     j2000 |-> 6097600]]
    IN  IF src = "natal"
        THEN [k \in DOMAIN common \cup {"pluto"} |->
                 IF k = "pluto"
                 THEN [name |-> "Pluto", motion |-> 40, j2000 |-> 4779200]
                 ELSE common[k]]
        ELSE common

\* Object.entries / Object.keys order of PLANETS.
PlanetKeys(src) ==
    LET common == <<"sun", "moon", "mercury", "venus", "mars", "jupiter",
                    "saturn", "uranus", "neptune">>
    IN  IF src = "natal" THEN Append(common, "pluto") ELSE common

\* Object.entries order of ASPECTS.
AspectKeys == <<"conjunction", "sextile", "square", "trine", "opposition">>

\* Faulty variant of ASPECTS: the sextile orb reaches into the window of the
\* square.
ASPECTSWideSextile(src) ==
    [conjunction |-> [angle |-> 0,   orb |-> 8,  nature |-> "major"],
     sextile     |-> [angle |-> 60,  orb |-> 28, nature |-> "harmonious"],
     square      |-> [angle |-> 90,  orb |-> 6,  nature |-> "challenging"],
     trine       |-> [angle |-> 120, orb |-> 6,  nature |-> "harmonious"],
     opposition  |-> [angle |-> 180, orb |-> 8,  nature |-> "challenging"]]

ASPECTS(src) ==
    IF src = "natal"
    THEN [conjunction |-> [angle |-> 0,   orb |-> 8, nature |-> "major"],
          sextile     |-> [angle |-> 60,  orb |-> 4, nature |-> "harmonious"],
          square      |-> [angle |-> 90,  orb |-> 6, nature |-> "challenging"],
          trine       |-> [angle |-> 120, orb |-> 6, nature |-> "harmonious"],
          opposition  |-> [angle |-> 180, orb |-> 8, nature |-> "challenging"]]
    ELSE [conjunction |-> [angle |-> 0,   orb |-> 8, nature |-> ""],
          sextile     |-> [angle |-> 60,  orb |-> 6, nature |-> ""],
          square      |-> [angle |-> 90,  orb |-> 8, nature |-> ""],
          trine       |-> [angle |-> 120, orb |-> 8, nature |-> ""],
          opposition  |-> [angle |-> 180, orb |-> 8, nature |-> ""]]

\* J2000 = 2451545.0, in half days.
J2000 == 2 * 2451545

---------------------------------------------------------------------------
(* AngleMath *)

\* norm: a % 360 keeps the sign of a in JavaScript; a negative remainder
\* is moved up by 360.
JsRem(a, m) == IF a >= 0 THEN a % m ELSE -((-a) % m)

norm(a) == LET x == JsRem(a, Circle) IN IF x < 0 THEN x + Circle ELSE x

\* (m * h) mod Circle without leaving 32 bits: h = 100 * (h div 100) + h mod 100.
MulMod(m, h) == (((m * (h \div 100)) % Circle) * 100 + m * (h % 100)) % Circle

\* lon(p, jd) for jd on the half-day grid.
lon(src, p, jd) ==
    IF p \in DOMAIN PLANETS(src)
    THEN LET pl == PLANETS(src)[p]
         IN  norm(pl.j2000 + MulMod(pl.motion, jd - J2000))
    ELSE 0

\* Faulty variant of getSign: the sign boundary is off by one degree.
getSignMutIdx(src, l) ==
    LET n == norm(l)
        signIndex == (n + Deg) \div (30 * Deg)
    IN  [sign |-> ZODIAC[(signIndex % 12) + 1],
         degree |-> IF src = "natal" THEN Round2(n % (30 * Deg)) ELSE Round1(n % (30 * Deg)),
         signIndex |-> signIndex % 12]

\* getSign (part_001): degree in hundredths.  sign (index.ts): deg in tenths.
getSign(src, l) ==
    LET n == norm(l)
        signIndex == n \div (30 * Deg)
    IN  [sign |-> ZODIAC[signIndex + 1],
         degree |-> IF src = "natal" THEN Round2(n % (30 * Deg)) ELSE Round1(n % (30 * Deg)),
         signIndex |-> signIndex]

---------------------------------------------------------------------------
(* Julian-day conversions *)

\* toJD(y, m, d) with h = 0, in half days (the value always ends in .5).
toJD(y, m, d) ==
    LET y1 == IF m <= 2 THEN y - 1 ELSE y
        m1 == IF m <= 2 THEN m + 12 ELSE m
        A == y1 \div 100
    IN  2 * ((36525 * (y1 + 4716)) \div 100 + (306001 * (m1 + 1)) \div 10000
             + d + 2 - A + A \div 4) - 3049

\* String(n) as a sequence of characters.
Digit(n) == <<"0", "1", "2", "3", "4", "5", "6", "7", "8", "9">>[n + 1]

RECURSIVE NatStr(_)
NatStr(n) == IF n < 10 THEN <<Digit(n)>> ELSE Append(NatStr(n \div 10), Digit(n % 10))

String(n) == IF n < 0 THEN <<"-">> \o NatStr(-n) ELSE NatStr(n)

\* String(n).padStart(2, "0")
PadStart2(n) == IF Len(String(n)) < 2 THEN <<"0">> \o String(n) ELSE String(n)

\* The calendar fields fromJD computes, jd in half days.
fromJDFields(jd) ==
    LET Z == (jd + 1) \div 2
        alpha == (100 * Z - 186721625) \div 3652425
        A == IF Z < 2299161 THEN Z ELSE Z + 1 + alpha - alpha \div 4
        B == A + 1524
        C == (100 * B - 12210) \div 36525
        D == (36525 * C) \div 100
        E == (10000 * (B - D)) \div 306001
        day == B - D - (306001 * E) \div 10000
        month == IF E < 14 THEN E - 1 ELSE E - 13
        year == IF month > 2 THEN C - 4716 ELSE C - 4715
    IN  [year |-> year, month |-> month, day |-> day]

\* Faulty variant of fromJD: the year is not moved on for January and February.
fromJDNoYearFix(jd) ==
    LET f == fromJDFields(jd)
        year == IF f.month > 2 THEN f.year ELSE f.year - 1
    IN  String(year) \o <<"-">> \o PadStart2(f.month) \o <<"-">> \o PadStart2(f.day)

\* fromJD(jd): the string year-MM-DD.
fromJD(jd) ==
    LET f == fromJDFields(jd)
    IN  String(f.year) \o <<"-">> \o PadStart2(f.month) \o <<"-">> \o PadStart2(f.day)

---------------------------------------------------------------------------
(* ChartGeometry: whole-sign houses (part_001) *)

HOUSE_MEANINGS ==
    <<"Self, identity, appearance",
      "Values, possessions, resources",
      "Communication, siblings, local travel",
      "Home, family, roots",
      "Creativity, romance, children",
      "Health, work, service",
      "Partnerships, marriage, contracts",
      "Transformation, shared resources, death",
      "Philosophy, travel, higher education",
      "Career, public image, authority",
      "Friends, groups, aspirations",
      "Spirituality, unconscious, endings">>

\* Faulty variant of calcWholeSIgnHouses: the rotation starts one sign late.
calcWholeSIgnHousesLate(ascendant) ==
    LET ascSign == getSign("natal", ascendant)
    IN  [n \in 1..12 |->
            LET signIndex == (ascSign.signIndex + n) % 12
            IN  [house |-> n, sign |-> ZODIAC[signIndex + 1],
                 cusp |-> signIndex * 30, meaning |-> HOUSE_MEANINGS[n]]]

\* calcWholeSIgnHouses: entry n is pushed by the loop pass i = n - 1; cusp in
\* whole degrees.
calcWholeSIgnHouses(ascendant) ==
    LET ascSign == getSign("natal", ascendant)
    IN  [n \in 1..12 |->
            LET i == n - 1
                signIndex == (ascSign.signIndex + i) % 12
            IN  [house |-> i + 1, sign |-> ZODIAC[signIndex + 1],
                 cusp |-> signIndex * 30, meaning |-> HOUSE_MEANINGS[i + 1]]]

---------------------------------------------------------------------------
(* AspectFinder: findAspect (part_001) *)

\* Faulty variant of Separation: the fold to the shortest arc is missing.
SeparationNoFold(lon1, lon2) == Abs(lon1 - lon2)

\* |lon1 - lon2| folded to the shortest arc.
Separation(lon1, lon2) ==
    LET sep == Abs(lon1 - lon2)
    IN  IF sep > HalfCircle THEN Circle - sep ELSE sep

\* The for-loop over Object.entries(ASPECTS) from entry i on: the first
\* entry within its orb returns.
RECURSIVE FindFrom(_, _)
FindFrom(sep, i) ==
    IF i > Len(AspectKeys) THEN [aspect |-> "null"]
    ELSE LET name == AspectKeys[i]
             data == ASPECTS("natal")[name]
             diff == Abs(sep - data.angle * Deg)
         IN  IF diff <= data.orb * Deg
             THEN [aspect |-> name, nature |-> data.nature,
                   orb |-> Round2(diff), exact |-> diff < Deg]
             ELSE FindFrom(sep, i + 1)

\* Faulty variant of findAspect: the separation is not folded to the shortest arc.
findAspectNoFold(lon1, lon2) == FindFrom(Abs(lon1 - lon2), 1)

findAspect(lon1, lon2) == FindFrom(Separation(lon1, lon2), 1)

---------------------------------------------------------------------------
(* EventScanner: what the three scans share *)

\* years of a transit request without a years parameter.
DefaultYears == <<2025, 2026, 2027>>

\* null, for a local that otherwise holds a number.
Null == -1

NoLoc == [none |-> TRUE]
NoRet == [none |-> TRUE]

\* Math.round(jd * 100) / 100 of a grid Julian day: <<days, hundredths>>.
RoundJd2(jd) == <<jd \div 2, 50 * (jd % 2)>>

\* a.jd - b.jd < 0
JdLess(a, b) == a[1] < b[1] \/ (a[1] = b[1] /\ a[2] < b[2])

\* Faulty variant of sortByJd: the list is returned in the order of the pushes.
sortByJdNone(seq) == seq

\* r.sort((a, b) => a.jd - b.jd): ascending by jd, events of equal jd in
\* the order they were pushed.
sortByJd(seq) == SortSeq(seq, LAMBDA a, b : JdLess(a.jd, b.jd))

---------------------------------------------------------------------------
(* EventScanner: calcIngresses (part_001), ingresses (index.ts) *)

\* Faulty variant of steps: the Moon is sampled every five days.
stepsCoarseMoon(src) ==
    LET common == [moon |-> 10, sun |-> 2, mercury |-> 1, venus |-> 1, mars |-> 2,
                   jupiter |-> 4, saturn |-> 6, uranus |-> 10, neptune |-> 14]
    IN  IF src = "natal"
        THEN [k \in DOMAIN common \cup {"pluto"} |-> IF k = "pluto" THEN 20 ELSE common[k]]
        ELSE common

\* steps, in half days.
steps(src) ==
    LET common == [moon |-> 1, sun |-> 2, mercury |-> 1, venus |-> 1, mars |-> 2,
                   jupiter |-> 4, saturn |-> 6, uranus |-> 10, neptune |-> 14]
    IN  IF src = "natal"
        THEN [k \in DOMAIN common \cup {"pluto"} |-> IF k = "pluto" THEN 20 ELSE common[k]]
        ELSE common

\* steps[k] || 1
stepOf(src, k) ==
    IF k \in DOMAIN steps(src) /\ steps(src)[k] # 0 THEN steps(src)[k] ELSE 2

\* Faulty variant of ingressPush: the previous sign is not tested for null.
ingressPushNoNullTest(evs, name, prev, sg, jd) ==
    IF sg # prev
    THEN Append(evs, [type |-> "ingress", body |-> name, from |-> prev, to |-> sg,
                      date |-> fromJD(jd), jd |-> RoundJd2(jd)])
    ELSE evs

\* if (prev && sg !== prev) r.push({...})
ingressPush(evs, name, prev, sg, jd) ==
    IF prev # "null" /\ sg # prev
    THEN Append(evs, [type |-> "ingress", body |-> name, from |-> prev, to |-> sg,
                      date |-> fromJD(jd), jd |-> RoundJd2(jd)])
    ELSE evs

IngressCall ==
    /\ pc = "call"
    /\ fn = "calcIngresses"
    /\ loc' = [s |-> toJD(args.year, 1, 1), e |-> toJD(args.year + 1, 1, 1),
               ki |-> 1, st |-> stepOf(args.src, PlanetKeys(args.src)[1]),
               prev |-> "null", jd |-> toJD(args.year, 1, 1)]
    /\ pc' = "loop"
    /\ UNCHANGED <<fn, args, r, ret>>

\* Faulty variant of IngressSample: the loop runs while jd <= e and samples
\* Jan 1 of the next year.
IngressSampleThroughEnd ==
    /\ pc = "loop"
    /\ fn = "calcIngresses"
    /\ loc.jd <= loc.e
    /\ LET k == PlanetKeys(args.src)[loc.ki]
           sg == getSign(args.src, lon(args.src, k, loc.jd)).sign
       IN  /\ r' = ingressPush(r, PLANETS(args.src)[k].name, loc.prev, sg, loc.jd)
           /\ loc' = [loc EXCEPT !.prev = sg, !.jd = loc.jd + loc.st]
    /\ UNCHANGED <<pc, fn, args, ret>>

\* One pass of for (let jd = s; jd < e; jd += st).
IngressSample ==
    /\ pc = "loop"
    /\ fn = "calcIngresses"
    /\ loc.jd < loc.e
    /\ LET k == PlanetKeys(args.src)[loc.ki]
           sg == getSign(args.src, lon(args.src, k, loc.jd)).sign
       IN  /\ r' = ingressPush(r, PLANETS(args.src)[k].name, loc.prev, sg, loc.jd)
           /\ loc' = [loc EXCEPT !.prev = sg, !.jd = loc.jd + loc.st]
    /\ UNCHANGED <<pc, fn, args, ret>>

\* The sample loop of one body ends and the next body starts.
IngressNextBody ==
    /\ pc = "loop"
    /\ fn = "calcIngresses"
    /\ loc.jd >= loc.e
    /\ loc.ki < Len(PlanetKeys(args.src))
    /\ loc' = [loc EXCEPT !.ki = loc.ki + 1,
                          !.st = stepOf(args.src, PlanetKeys(args.src)[loc.ki + 1]),
                          !.prev = "null", !.jd = loc.s]
    /\ UNCHANGED <<pc, fn, args, r, ret>>

IngressReturn ==
    /\ pc = "loop"
    /\ fn = "calcIngresses"
    /\ loc.jd >= loc.e
    /\ loc.ki = Len(PlanetKeys(args.src))
    /\ ret' = [events |-> sortByJd(r)]
    /\ pc' = "done"
    /\ UNCHANGED <<fn, args, loc, r>>

---------------------------------------------------------------------------
(* EventScanner: calcRetrogrades (part_001), retrogrades (index.ts) *)

\* The bodies the retrograde scan walks.
RetroKeys(src) ==
    LET common == <<"mercury", "venus", "mars", "jupiter", "saturn", "uranus", "neptune">>
    IN  IF src = "natal" THEN Append(common, "pluto") ELSE common

\* st = k === "mercury" || k === "venus" ? 0.5 : 1, in half days.
retroStep(k) == IF k = "mercury" \/ k = "venus" THEN 1 ELSE 2

\* Faulty variant of retroDirection: only a delta above 180 is unwrapped.
retroDirectionHalfUnwrap(src, l, pL) ==
    LET m0 == l - pL
        m == IF m0 > HalfCircle THEN m0 - Circle ELSE m0
    IN  IF m > 0 THEN "direct" ELSE IF src = "natal" THEN "retrograde" ELSE "retro"

\* Faulty variant of retroDirection: the delta is not unwrapped across 0/360.
retroDirectionNoUnwrap(src, l, pL) ==
    IF l - pL > 0 THEN "direct" ELSE IF src = "natal" THEN "retrograde" ELSE "retro"

\* let m = l - pL; if (m > 180) m -= 360; if (m < -180) m += 360;
\* d = m > 0 ? "direct" : "retrograde"   ("retro" in index.ts)
retroDirection(src, l, pL) ==
    LET m0 == l - pL
        m1 == IF m0 > HalfCircle THEN m0 - Circle ELSE m0
        m == IF m1 < -HalfCircle THEN m1 + Circle ELSE m1
    IN  IF m > 0 THEN "direct" ELSE IF src = "natal" THEN "retrograde" ELSE "retro"

\* The station events; index.ts writes the fields degree and duration_days
\* as deg and days.
retroStart(src, name, l, jd) ==
    [type |-> IF src = "natal" THEN "retrograde_start" ELSE "retro_start",
     body |-> name, date |-> fromJD(jd), sign |-> getSign(src, l).sign,
     degree |-> getSign(src, l).degree, jd |-> RoundJd2(jd)]

retroEnd(src, name, l, jd, sJd) ==
    [type |-> IF src = "natal" THEN "retrograde_end" ELSE "retro_end",
     body |-> name, date |-> fromJD(jd), sign |-> getSign(src, l).sign,
     degree |-> getSign(src, l).degree, duration_days |-> RoundDiv(jd - sJd, 2),
     jd |-> RoundJd2(jd)]

\* Faulty variant of retroBody: a change to direct emits an end whether or
\* not a start is remembered.
retroBodyAnyEnd(src, name, l, lc, evs) ==
    IF lc.pL # Null
    THEN LET d == retroDirection(src, l, lc.pL)
             retro == IF src = "natal" THEN "retrograde" ELSE "retro"
             changed == lc.pD # "null" /\ d # lc.pD
             starts == changed /\ d = retro
             ends == changed /\ d # retro
         IN  [loc |-> [lc EXCEPT !.sJd = IF starts THEN lc.jd
                                       ELSE IF ends THEN Null ELSE lc.sJd,
                                 !.pD = d, !.pL = l, !.jd = lc.jd + lc.st],
              r |-> IF starts THEN Append(evs, retroStart(src, name, l, lc.jd))
                    ELSE IF ends THEN Append(evs, retroEnd(src, name, l, lc.jd, lc.sJd))
                    ELSE evs]
    ELSE [loc |-> [lc EXCEPT !.pL = l, !.jd = lc.jd + lc.st], r |-> evs]

\* The body of the sample loop for the sample l at jd: the locals and the
\* event list after it.
retroBody(src, name, l, lc, evs) ==
    IF lc.pL # Null
    THEN LET d == retroDirection(src, l, lc.pL)
             retro == IF src = "natal" THEN "retrograde" ELSE "retro"
             changed == lc.pD # "null" /\ d # lc.pD
             starts == changed /\ d = retro
             ends == changed /\ d # retro /\ lc.sJd # Null /\ lc.sJd # 0
         IN  [loc |-> [lc EXCEPT !.sJd = IF starts THEN lc.jd
                                       ELSE IF ends THEN Null ELSE lc.sJd,
                                 !.pD = d, !.pL = l, !.jd = lc.jd + lc.st],
              r |-> IF starts THEN Append(evs, retroStart(src, name, l, lc.jd))
                    ELSE IF ends THEN Append(evs, retroEnd(src, name, l, lc.jd, lc.sJd))
                    ELSE evs]
    ELSE [loc |-> [lc EXCEPT !.pL = l, !.jd = lc.jd + lc.st], r |-> evs]

RetroCall ==
    /\ pc = "call"
    /\ fn = "calcRetrogrades"
    /\ loc' = [s |-> toJD(args.year, 1, 1), e |-> toJD(args.year + 1, 1, 1),
               ki |-> 1, st |-> retroStep(RetroKeys(args.src)[1]),
               pL |-> Null, pD |-> "null", sJd |-> Null, jd |-> toJD(args.year, 1, 1)]
    /\ pc' = "loop"
    /\ UNCHANGED <<fn, args, r, ret>>

\* One pass of for (let jd = s; jd < e; jd += st).
RetroSample ==
    /\ pc = "loop"
    /\ fn = "calcRetrogrades"
    /\ loc.jd < loc.e
    /\ LET k == RetroKeys(args.src)[loc.ki]
           after == retroBody(args.src, PLANETS(args.src)[k].name,
                              lon(args.src, k, loc.jd), loc, r)
       IN  /\ loc' = after.loc
           /\ r' = after.r
    /\ UNCHANGED <<pc, fn, args, ret>>

RetroNextBody ==
    /\ pc = "loop"
    /\ fn = "calcRetrogrades"
    /\ loc.jd >= loc.e
    /\ loc.ki < Len(RetroKeys(args.src))
    /\ loc' = [loc EXCEPT !.ki = loc.ki + 1,
                          !.st = retroStep(RetroKeys(args.src)[loc.ki + 1]),
                          !.pL = Null, !.pD = "null", !.sJd = Null, !.jd = loc.s]
    /\ UNCHANGED <<pc, fn, args, r, ret>>

RetroReturn ==
    /\ pc = "loop"
    /\ fn = "calcRetrogrades"
    /\ loc.jd >= loc.e
    /\ loc.ki = Len(RetroKeys(args.src))
    /\ ret' = [events |-> sortByJd(r)]
    /\ pc' = "done"
    /\ UNCHANGED <<fn, args, loc, r>>

\* The sample loop of one body over a given sequence of positions, one per
\* sample from s on, in place of lon(k, jd): the scan as run against a
\* position provider other than the mean-motion table.
RetroLoopCall ==
    /\ pc = "call"
    /\ fn = "retrogradeLoop"
    /\ loc' = [s |-> args.s, e |-> args.s + Len(args.positions) * retroStep(args.k),
               ki |-> 1, st |-> retroStep(args.k),
               pL |-> Null, pD |-> "null", sJd |-> Null, jd |-> args.s]
    /\ pc' = "loop"
    /\ UNCHANGED <<fn, args, r, ret>>

RetroLoopSample ==
    /\ pc = "loop"
    /\ fn = "retrogradeLoop"
    /\ loc.jd < loc.e
    /\ LET l == args.positions[(loc.jd - loc.s) \div loc.st + 1]
           after == retroBody(args.src, PLANETS(args.src)[args.k].name, l, loc, r)
       IN  /\ loc' = after.loc
           /\ r' = after.r
    /\ UNCHANGED <<pc, fn, args, ret>>

RetroLoopReturn ==
    /\ pc = "loop"
    /\ fn = "retrogradeLoop"
    /\ loc.jd >= loc.e
    /\ ret' = [events |-> sortByJd(r)]
    /\ pc' = "done"
    /\ UNCHANGED <<fn, args, loc, r>>

---------------------------------------------------------------------------
(* EventScanner: calcTransitAspects (part_001), aspects (index.ts) *)

outer(src) ==
    LET common == <<"jupiter", "saturn", "uranus", "neptune">>
    IN  IF src = "natal" THEN Append(common, "pluto") ELSE common

\* Faulty variant of SunAspects: no aspect kind is skipped.
SunAspectsAll == {AspectKeys[i] : i \in 1..Len(AspectKeys)}

\* The aspects the Sun loop does not skip.
SunAspects == {"conjunction", "opposition", "square"}

\* The scanning corridor of the Sun loop, in degrees.
SunCorridor == 3

\* Faulty variant of freshRun: a loop starts with the flag and the running
\* best the loop before it ended with.
freshRunKeepOpen(lc, s) == [lc EXCEPT !.jd = s]

\* let io = false, bJd = null, bD = 999
freshRun(lc, s) == [lc EXCEPT !.io = FALSE, !.bJd = Null, !.bD = 999 * Deg, !.jd = s]

\* Faulty variant of endRun: the running best is kept for the next run.
endRunKeepBest(lc) == [lc EXCEPT !.io = FALSE]

\* io = false; bJd = null; bD = 999
endRun(lc) == [lc EXCEPT !.io = FALSE, !.bJd = Null, !.bD = 999 * Deg]

aspectEvent(src, n, a, nameA, b, nameB, bJd, bD) ==
    [type |-> "aspect", aspect |-> n, body1 |-> nameA, body2 |-> nameB,
     pos1 |-> getSign(src, lon(src, a, bJd)), pos2 |-> getSign(src, lon(src, b, bJd)),
     date |-> fromJD(bJd), exactness |-> Round2(bD), jd |-> RoundJd2(bJd)]

\* The body of a sample loop for bodies a and b, aspect n and the given
\* corridor (in units): the locals and the event list after it.
aspectBody(src, n, a, nameA, b, nameB, corridor, lc, evs) ==
    LET sep == Separation(lon(src, a, lc.jd), lon(src, b, lc.jd))
        df == Abs(sep - ASPECTS(src)[n].angle * Deg)
        step == [lc EXCEPT !.jd = lc.jd + lc.st]
    IN  IF df <= corridor
        THEN [loc |-> IF df < lc.bD
                      THEN [step EXCEPT !.bD = df, !.bJd = lc.jd, !.io = TRUE]
                      ELSE [step EXCEPT !.io = TRUE],
              r |-> evs]
        ELSE IF lc.io /\ lc.bJd # Null /\ lc.bJd # 0
             THEN [loc |-> endRun(step),
                   r |-> Append(evs, aspectEvent(src, n, a, nameA, b, nameB, lc.bJd, lc.bD))]
             ELSE [loc |-> step, r |-> evs]

AspectsCall ==
    /\ pc = "call"
    /\ fn = "calcTransitAspects"
    /\ loc' = [s |-> toJD(args.year, 1, 1), e |-> toJD(args.year + 1, 1, 1),
               i |-> 1, j |-> 2, p |-> 1, ai |-> 1, st |-> 2,
               io |-> FALSE, bJd |-> Null, bD |-> 999 * Deg, jd |-> toJD(args.year, 1, 1)]
    /\ pc' = "outer"
    /\ UNCHANGED <<fn, args, r, ret>>

\* One pass of for (let jd = s; jd < e; jd += 1) of the outer-pair loops.
OuterSample ==
    /\ pc = "outer"
    /\ fn = "calcTransitAspects"
    /\ loc.jd < loc.e
    /\ LET a == outer(args.src)[loc.i]
           b == outer(args.src)[loc.j]
           n == AspectKeys[loc.ai]
           after == aspectBody(args.src, n, a, PLANETS(args.src)[a].name,
                               b, PLANETS(args.src)[b].name,
                               ASPECTS(args.src)[n].orb * Deg, loc, r)
       IN  /\ loc' = after.loc
           /\ r' = after.r
    /\ UNCHANGED <<pc, fn, args, ret>>

\* A sample loop of the outer pairs ends: the next aspect, else the next j,
\* else the next i, else the Sun loops.
OuterNext ==
    /\ pc = "outer"
    /\ fn = "calcTransitAspects"
    /\ loc.jd >= loc.e
    /\ LET n == Len(outer(args.src))
       IN  IF loc.ai < Len(AspectKeys)
           THEN /\ loc' = freshRun([loc EXCEPT !.ai = loc.ai + 1], loc.s)
                /\ pc' = "outer"
           ELSE IF loc.j < n
           THEN /\ loc' = freshRun([loc EXCEPT !.j = loc.j + 1, !.ai = 1], loc.s)
                /\ pc' = "outer"
           ELSE IF loc.i + 1 < n
           THEN /\ loc' = freshRun([loc EXCEPT !.i = loc.i + 1, !.j = loc.i + 2, !.ai = 1], loc.s)
                /\ pc' = "outer"
           ELSE /\ loc' = [loc EXCEPT !.p = 1, !.ai = 1, !.st = 1]
                /\ pc' = "sunHead"
    /\ UNCHANGED <<fn, args, r, ret>>

\* if (!["conjunction", "opposition", "square"].includes(n)) continue;
SunContinue ==
    /\ pc = "sunHead"
    /\ fn = "calcTransitAspects"
    /\ AspectKeys[loc.ai] \notin SunAspects
    /\ IF loc.ai < Len(AspectKeys)
       THEN /\ loc' = [loc EXCEPT !.ai = loc.ai + 1]
            /\ pc' = "sunHead"
       ELSE IF loc.p < Len(outer(args.src))
       THEN /\ loc' = [loc EXCEPT !.p = loc.p + 1, !.ai = 1]
            /\ pc' = "sunHead"
       ELSE /\ loc' = loc
            /\ pc' = "return"
    /\ UNCHANGED <<fn, args, r, ret>>

SunEnter ==
    /\ pc = "sunHead"
    /\ fn = "calcTransitAspects"
    /\ AspectKeys[loc.ai] \in SunAspects
    /\ loc' = freshRun(loc, loc.s)
    /\ pc' = "sun"
    /\ UNCHANGED <<fn, args, r, ret>>

\* One pass of for (let jd = s; jd < e; jd += 0.5) of the Sun loops.
SunSample ==
    /\ pc = "sun"
    /\ fn = "calcTransitAspects"
    /\ loc.jd < loc.e
    /\ LET b == outer(args.src)[loc.p]
           n == AspectKeys[loc.ai]
           after == aspectBody(args.src, n, "sun", "Sun", b, PLANETS(args.src)[b].name,
                               SunCorridor * Deg, loc, r)
       IN  /\ loc' = after.loc
           /\ r' = after.r
    /\ UNCHANGED <<pc, fn, args, ret>>

SunNext ==
    /\ pc = "sun"
    /\ fn = "calcTransitAspects"
    /\ loc.jd >= loc.e
    /\ IF loc.ai < Len(AspectKeys)
       THEN /\ loc' = [loc EXCEPT !.ai = loc.ai + 1]
            /\ pc' = "sunHead"
       ELSE IF loc.p < Len(outer(args.src))
       THEN /\ loc' = [loc EXCEPT !.p = loc.p + 1, !.ai = 1]
            /\ pc' = "sunHead"
       ELSE /\ loc' = loc
            /\ pc' = "return"
    /\ UNCHANGED <<fn, args, r, ret>>

AspectsReturn ==
    /\ pc = "return"
    /\ fn = "calcTransitAspects"
    /\ ret' = [events |-> sortByJd(r)]
    /\ pc' = "done"
    /\ UNCHANGED <<fn, args, loc, r>>

---------------------------------------------------------------------------
(* Calls of findAspect on probe longitudes *)

\* How far (in units) the probes step around each boundary of a window.
Jitter == 2

ProbeLon1 == {0, 15 * Deg, 200 * Deg + 100, Circle - 1, Circle}

\* Separations at the centre of each aspect, one degree from it and at
\* the edge of its orb, each within Jitter units on both sides.
ProbeOffsets ==
    UNION {{ASPECTS("natal")[n].angle * Deg + sgn * (w + j) :
               sgn \in {-1, 1},
               w \in {0, Deg - 80, Deg, ASPECTS("natal")[n].orb * Deg},
               j \in -Jitter..Jitter} :
           n \in DOMAIN ASPECTS("natal")}
    \cup {30 * Deg, 75 * Deg, 150 * Deg}

InitFindAspect ==
    /\ pc = "call"
    /\ fn = "findAspect"
    /\ \E a \in ProbeLon1, o \in ProbeOffsets :
          args = [lon1 |-> a, lon2 |-> IF a = Circle THEN (o % Circle) ELSE (a + o) % Circle]
    /\ loc = NoLoc
    /\ r = <<>>
    /\ ret = NoRet

FindAspectCall ==
    /\ pc = "call"
    /\ fn = "findAspect"
    /\ ret' = findAspect(args.lon1, args.lon2)
    /\ pc' = "done"
    /\ UNCHANGED <<fn, args, loc, r>>

SpecFindAspect == InitFindAspect /\ [][FindAspectCall]_vars

\* The entries of the part_001 table whose window holds the separation.
MatchingAspects(sep) ==
    {i \in 1..Len(AspectKeys) :
        Abs(sep - ASPECTS("natal")[AspectKeys[i]].angle * Deg)
            <= ASPECTS("natal")[AspectKeys[i]].orb * Deg}

Min(S) == CHOOSE x \in S : \A y \in S : x <= y

FindAspectDone == pc = "done" /\ fn = "findAspect"

\* Shortest arc between two longitudes of [0, 360], stated without the fold.
ShortArc(a, b) == Min({Abs(a - b), Circle - Abs(a - b)})

\* C1 (original): the returned orb is the absolute deviation itself.
C1_OrbIsDeviation ==
    (FindAspectDone /\ ret.aspect # "null") =>
        ret.orb * (Deg \div 100) =
            Abs(ShortArc(args.lon1, args.lon2) - ASPECTS("natal")[ret.aspect].angle * Deg)

\* C1 (amended): findAspect returns the first entry, in the order
\* conjunction, sextile, square, trine, opposition, whose window holds the
\* shortest-arc separation, and none when no window holds it; the returned
\* orb is the deviation rounded to two decimals, and exact is true exactly
\* when the unrounded deviation is below one degree.
C1_FindAspectFirstMatch ==
    FindAspectDone =>
        LET sep == ShortArc(args.lon1, args.lon2)
            m == MatchingAspects(sep)
        IN  IF m = {} THEN ret.aspect = "null"
            ELSE LET name == AspectKeys[Min(m)]
                     dev == Abs(sep - ASPECTS("natal")[name].angle * Deg)
                 IN  /\ ret.aspect = name
                     /\ ret.orb = Round2(dev)
                     /\ ret.exact = (dev < Deg)

\* A folded opposition whose deviation 0.996 is reported as orb 1.00 with exact true.
C1_Witness ==
    /\ FindAspectDone
    /\ ret.aspect = "opposition"
    /\ Abs(args.lon1 - args.lon2) > HalfCircle
    /\ ret.exact
    /\ ret.orb = 100

---------------------------------------------------------------------------
(* Calls of toJD and fromJD on calendar dates *)

MinYear == 1920
MaxYear == 2029

IsLeap(y) == (y % 4 = 0 /\ y % 100 # 0) \/ y % 400 = 0

DaysInMonth(y, m) ==
    IF m = 2 THEN (IF IsLeap(y) THEN 29 ELSE 28)
    ELSE IF m \in {4, 6, 9, 11} THEN 30 ELSE 31

InitRoundTrip ==
    /\ pc = "toJD"
    /\ fn = "roundTrip"
    /\ \E y \in MinYear..MaxYear, m \in 1..12 :
          \E d \in 1..DaysInMonth(y, m) : args = [y |-> y, m |-> m, d |-> d]
    /\ loc = NoLoc
    /\ r = <<>>
    /\ ret = NoRet

ToJDCall ==
    /\ pc = "toJD"
    /\ fn = "roundTrip"
    /\ loc' = [jd |-> toJD(args.y, args.m, args.d)]
    /\ pc' = "fromJD"
    /\ UNCHANGED <<fn, args, r, ret>>

FromJDCall ==
    /\ pc = "fromJD"
    /\ fn = "roundTrip"
    /\ ret' = [date |-> fromJD(loc.jd)]
    /\ pc' = "done"
    /\ UNCHANGED <<fn, args, loc, r>>

SpecRoundTrip == InitRoundTrip /\ [][ToJDCall \/ FromJDCall]_vars

\* Reading a date string back: the number written by a run of digits.
DigitValue(c) == CHOOSE n \in 0..9 : Digit(n) = c

RECURSIVE ParseNat(_)
ParseNat(cs) ==
    IF cs = <<>> THEN 0
    ELSE 10 * ParseNat(SubSeq(cs, 1, Len(cs) - 1)) + DigitValue(cs[Len(cs)])

\* year-MM-DD with a year of at least one digit and no sign.
ParseDate(cs) ==
    LET n == Len(cs)
    IN  [y |-> ParseNat(SubSeq(cs, 1, n - 6)),
         m |-> ParseNat(SubSeq(cs, n - 4, n - 3)),
         d |-> ParseNat(SubSeq(cs, n - 1, n))]

WellFormedDate(cs) ==
    /\ Len(cs) >= 7
    /\ cs[Len(cs) - 2] = "-"
    /\ cs[Len(cs) - 5] = "-"
    /\ \A i \in (1..Len(cs)) \ {Len(cs) - 2, Len(cs) - 5} : \E n \in 0..9 : Digit(n) = cs[i]

\* C9: for every calendar date of MinYear-01-01 .. MaxYear-12-31, fromJD of
\* toJD of the date writes the same year, month and day.
C9_JulianDayRoundTrip ==
    (pc = "done" /\ fn = "roundTrip") =>
        /\ WellFormedDate(ret.date)
        /\ ParseDate(ret.date) = args

\* A leap day and a January date (the month <= 2 branch) have made the trip.
C9_Witness ==
    /\ pc = "done" /\ fn = "roundTrip"
    /\ args = [y |-> 2000, m |-> 2, d |-> 29]
    /\ ret.date = <<"2", "0", "0", "0", "-", "0", "2", "-", "2", "9">>
    /\ loc.jd = 2 * 2451604 - 1

---------------------------------------------------------------------------
(* Calls of calcWholeSIgnHouses on ascendants of every sign *)

\* Ascendants at the start, the middle and the end of each sign.
ProbeAscendants ==
    {sg * 30 * Deg + o : sg \in 0..11,
                         o \in UNION {{j, 15 * Deg + j, 30 * Deg - 1 - j} : j \in 0..Jitter}}

InitHouses ==
    /\ pc = "call"
    /\ fn = "calcWholeSIgnHouses"
    /\ \E a \in ProbeAscendants : args = [ascendant |-> a]
    /\ loc = NoLoc
    /\ r = <<>>
    /\ ret = NoRet

HousesCall ==
    /\ pc = "call"
    /\ fn = "calcWholeSIgnHouses"
    /\ ret' = [houses |-> calcWholeSIgnHouses(args.ascendant)]
    /\ pc' = "done"
    /\ UNCHANGED <<fn, args, loc, r>>

SpecHouses == InitHouses /\ [][HousesCall]_vars

HousesDone == pc = "done" /\ fn = "calcWholeSIgnHouses"

\* Index of the 30-degree segment holding a longitude of [0, 360).
SegmentOf(l) == CHOOSE k \in 0..11 : k * 30 * Deg <= l /\ l < (k + 1) * 30 * Deg

\* C10: the 12 houses are numbered 1..12 in order; house i carries the sign
\* at index (ascendant sign index + i - 1) mod 12, so the house signs are the
\* 12 zodiac signs, each once, and house 1 carries the ascendant's sign; each
\* cusp is sign index x 30 and house i carries the i-th fixed meaning.
C10_WholeSignHouses ==
    HousesDone =>
        LET h == ret.houses
            asc == SegmentOf(args.ascendant)
        IN  /\ DOMAIN h = 1..12
            /\ \A i \in 1..12 :
                  /\ h[i].house = i
                  /\ h[i].sign = ZODIAC[((asc + i - 1) % 12) + 1]
                  /\ h[i].cusp = ((asc + i - 1) % 12) * 30
                  /\ h[i].meaning = HOUSE_MEANINGS[i]
            /\ h[1].sign = ZODIAC[asc + 1]
            /\ {h[i].sign : i \in 1..12} = {ZODIAC[k] : k \in 1..12}
            /\ \A i, j \in 1..12 : h[i].sign = h[j].sign => i = j

\* An ascendant in the last unit of Pisces: the rotation wraps after house 1.
C10_Witness ==
    /\ HousesDone
    /\ args.ascendant = Circle - 1
    /\ ret.houses[1].sign = "Pisces"
    /\ ret.houses[2].sign = "Aries"
    /\ ret.houses[2].cusp = 0

---------------------------------------------------------------------------
(* The ingress scan of the first NYears default years, in both functions *)

NYears == 2

Sources == {"natal", "transits"}

ScanYears == {DefaultYears[i] : i \in 1..NYears}

InitIngress ==
    /\ pc = "call"
    /\ fn = "calcIngresses"
    /\ \E src \in Sources, y \in ScanYears : args = [src |-> src, year |-> y]
    /\ loc = NoLoc
    /\ r = <<>>
    /\ ret = NoRet

SpecIngress ==
    InitIngress /\ [][IngressCall \/ IngressSample \/ IngressNextBody \/ IngressReturn]_vars

\* Sign name of a longitude of [0, 360), by its 30-degree segment.
SignName(l) == ZODIAC[SegmentOf(l) + 1]

\* Mean longitude of a body at a grid Julian day, as a residue of 360.
MeanLon(src, k, jd) ==
    (PLANETS(src)[k].j2000 + MulMod(PLANETS(src)[k].motion, jd - J2000)) % Circle

\* A step of the sample loop of the ingress scan.
IsIngressSample ==
    /\ pc = "loop" /\ fn = "calcIngresses"
    /\ pc' = "loop" /\ loc'.ki = loc.ki /\ loc'.jd # loc.jd

\* C5: a sample emits an ingress event exactly when it is not the first
\* sample of its body and its sign differs from the sign of the sample one
\* step earlier; then exactly one event is appended, dated at the later
\* sample, from the earlier sample's sign to the later sample's sign.
C5_IngressPerSignChange ==
    [][IsIngressSample =>
        LET k == PlanetKeys(args.src)[loc.ki]
            cur == SignName(MeanLon(args.src, k, loc.jd))
            before == SignName(MeanLon(args.src, k, loc.jd - loc.st))
        IN  IF loc.jd # toJD(args.year, 1, 1) /\ cur # before
            THEN /\ Len(r') = Len(r) + 1
                 /\ SubSeq(r', 1, Len(r)) = r
                 /\ LET ev == r'[Len(r')]
                    IN  /\ ev.type = "ingress"
                        /\ ev.body = PLANETS(args.src)[k].name
                        /\ ev.from = before
                        /\ ev.to = cur
                        /\ ev.date = fromJD(loc.jd)
                        /\ ev.jd = <<loc.jd \div 2, 50 * (loc.jd % 2)>>
            ELSE r' = r]_vars

\* The Sun's scan of 2025 has passed its first sign change: sampled daily
\* from Jan 1, it enters Aquarius at the sample of 2025-01-21.
C5_Witness ==
    /\ fn = "calcIngresses" /\ pc = "loop" /\ args.year = 2025
    /\ loc.ki = 1
    /\ Len(r) = 1
    /\ r[1].body = "Sun" /\ r[1].from = "Capricorn" /\ r[1].to = "Aquarius"
    /\ r[1].date = <<"2", "0", "2", "5", "-", "0", "1", "-", "2", "1">>
    /\ loc.prev = "Aquarius"

---------------------------------------------------------------------------
(* The retrograde scan of the first NYears default years *)

InitRetro ==
    /\ pc = "call"
    /\ fn = "calcRetrogrades"
    /\ \E src \in Sources, y \in ScanYears : args = [src |-> src, year |-> y]
    /\ loc = NoLoc
    /\ r = <<>>
    /\ ret = NoRet

SpecRetro ==
    InitRetro /\ [][RetroCall \/ RetroSample \/ RetroNextBody \/ RetroReturn]_vars

\* The events of a list that satisfy a test.
Count(evs, Test(_)) == Cardinality({i \in 1..Len(evs) : Test(evs[i])})

IsMercuryStart(ev) ==
    ev.body = "Mercury" /\ ev.type \in {"retrograde_start", "retro_start"}

\* C3: the retrograde list of 2025 holds 3 or 4 retrograde-start events of
\* Mercury.
C3_MercuryStations2025 ==
    (pc = "done" /\ fn = "calcRetrogrades" /\ args.year = 2025) =>
        Count(ret.events, IsMercuryStart) \in {3, 4}

---------------------------------------------------------------------------
(* The retrograde sample loop over given position sequences *)

\* Samples per sequence.
MaxSamples == 5

\* Positions on both sides of 0 degrees, one degree apart.
ProbePositions == {Circle - Deg \div 2, Deg \div 2, Deg + Deg \div 2, 2 * Deg + Deg \div 2}

InitRetroLoop ==
    /\ pc = "call"
    /\ fn = "retrogradeLoop"
    /\ \E src \in Sources, k \in {"mercury", "mars"},
          ps \in [1..MaxSamples -> ProbePositions] :
          args = [src |-> src, k |-> k, s |-> toJD(2025, 1, 1), positions |-> ps]
    /\ loc = NoLoc
    /\ r = <<>>
    /\ ret = NoRet

SpecRetroLoop ==
    InitRetroLoop /\ [][RetroLoopCall \/ RetroLoopSample \/ RetroLoopReturn]_vars

\* Direction of travel from position a to position b along the shorter arc.
Direction(a, b) ==
    LET fwd == (b - a) % Circle
    IN  IF fwd = 0 \/ fwd = HalfCircle THEN "none"
        ELSE IF fwd < HalfCircle THEN "direct" ELSE "retrograde"

\* The positions go direct up to sample a, retrograde up to sample b and
\* direct from there to the last sample.
DirectRetroDirect(ps, a, b) ==
    /\ 1 < a /\ a < b /\ b < Len(ps)
    /\ \A i \in 1..(Len(ps) - 1) :
          Direction(ps[i], ps[i + 1]) =
              IF i < a \/ i >= b THEN "direct" ELSE "retrograde"

SampleJd(i) == args.s + (i - 1) * retroStep(args.k)

IsStart(ev) == ev.type \in {"retrograde_start", "retro_start"}
IsEnd(ev) == ev.type \in {"retrograde_end", "retro_end"}

RetroLoopDone == pc = "done" /\ fn = "retrogradeLoop"

\* One start at the sample after a and one end at the sample after b.
OneStationPair(a, b) ==
    /\ Len(ret.events) = 2
    /\ IsStart(ret.events[1]) /\ ret.events[1].jd = RoundJd2(SampleJd(a + 1))
    /\ ret.events[1].date = fromJD(SampleJd(a + 1))
    /\ IsEnd(ret.events[2]) /\ ret.events[2].jd = RoundJd2(SampleJd(b + 1))
    /\ ret.events[2].date = fromJD(SampleJd(b + 1))

---------------------------------------------------------------------------
(* The aspect scan of the first NAspectYears default years *)

NAspectYears == 2

InitAspects ==
    /\ pc = "call"
    /\ fn = "calcTransitAspects"
    /\ \E src \in Sources, i \in 1..NAspectYears : args = [src |-> src, year |-> DefaultYears[i]]
    /\ loc = NoLoc
    /\ r = <<>>
    /\ ret = NoRet

SpecAspects ==
    InitAspects /\ [][AspectsCall \/ OuterSample \/ OuterNext \/ SunContinue \/ SunEnter
                      \/ SunSample \/ SunNext \/ AspectsReturn]_vars

\* The loop a sample step of the aspect scan belongs to: its two bodies, its
\* aspect, the deviation it accepts, its first sample and its step.
CurrentLoop ==
    LET n == AspectKeys[loc.ai]
    IN  IF pc = "sun"
        THEN [src |-> args.src, a |-> "sun", b |-> outer(args.src)[loc.p], n |-> n,
              corridor |-> 3 * Deg, s |-> toJD(args.year, 1, 1), st |-> 1]
        ELSE [src |-> args.src, a |-> outer(args.src)[loc.i], b |-> outer(args.src)[loc.j],
              n |-> n, corridor |-> ASPECTS(args.src)[n].orb * Deg,
              s |-> toJD(args.year, 1, 1), st |-> 2]

IsAspectSample ==
    /\ fn = "calcTransitAspects" /\ pc \in {"outer", "sun"}
    /\ pc' = pc /\ loc'.jd > loc.jd

\* Deviation of the pair's separation from the aspect's angle at a sample.
DevAt(c, jd) ==
    Abs(ShortArc(MeanLon(c.src, c.a, jd), MeanLon(c.src, c.b, jd))
        - ASPECTS(c.src)[c.n].angle * Deg)

\* The sample at jd belongs to the scan and is in orb.
InOrbAt(c, jd) == jd >= c.s /\ DevAt(c, jd) <= c.corridor

Max(S) == CHOOSE x \in S : \A y \in S : y <= x

\* First sample of the maximal in-orb run that holds the in-orb sample last.
RunFirst(c, last) ==
    LET out == {jd \in c.s..last : (jd - c.s) % c.st = 0 /\ ~InOrbAt(c, jd)}
    IN  IF out = {} THEN c.s ELSE Max(out) + c.st

RunSamples(c, last) == {jd \in RunFirst(c, last)..last : (jd - c.s) % c.st = 0}

RunMin(c, last) == Min({DevAt(c, jd) : jd \in RunSamples(c, last)})

\* Earliest sample of the run with the minimum deviation.
RunBest(c, last) == Min({jd \in RunSamples(c, last) : DevAt(c, jd) = RunMin(c, last)})

\* The step at an out-of-orb sample that follows an in-orb sample appends
\* one event for the run that just ended, dated at the run's best sample,
\* and resets the in-orb flag and the running best; no other sample step
\* appends anything.  Exactness(m) is the exactness reported for a minimum m.
OneEventPerRun(Exactness(_)) ==
    IsAspectSample =>
        LET c == CurrentLoop
        IN  IF ~InOrbAt(c, loc.jd) /\ InOrbAt(c, loc.jd - c.st)
            THEN /\ Len(r') = Len(r) + 1
                 /\ SubSeq(r', 1, Len(r)) = r
                 /\ LET ev == r'[Len(r')]
                        best == RunBest(c, loc.jd - c.st)
                    IN  /\ ev.type = "aspect"
                        /\ ev.aspect = c.n
                        /\ ev.body1 = PLANETS(c.src)[c.a].name
                        /\ ev.body2 = PLANETS(c.src)[c.b].name
                        /\ ev.exactness = Exactness(RunMin(c, loc.jd - c.st))
                        /\ ev.jd = <<best \div 2, 50 * (best % 2)>>
                        /\ ev.date = fromJD(best)
                 /\ loc'.io = FALSE /\ loc'.bJd = Null /\ loc'.bD = 999 * Deg
            ELSE r' = r

\* A deviation that is a whole number of hundredths, in hundredths; else no
\* value an exactness can take.
Hundredths(m) == IF m % (Deg \div 100) = 0 THEN m \div (Deg \div 100) ELSE -1

\* C4 (original): every maximal in-orb run followed by an out-of-orb sample
\* yields one event at the out-of-orb transition, whose exactness is the
\* minimum deviation over the run and whose date is that of the earliest
\* sample achieving it; the flag and the running best are then reset.
C4_ExactnessIsRunMinimum == [][OneEventPerRun(Hundredths)]_vars

\* C4 (amended): as above, with the exactness being the minimum deviation
\* rounded to two decimals.
C4_OneEventPerRun == [][OneEventPerRun(Round2)]_vars

\* The second Sun-Jupiter square of 2025 has been emitted: two runs of one
\* loop, the second started afresh.
C4_Witness ==
    /\ fn = "calcTransitAspects" /\ pc = "sun" /\ args.year = 2025
    /\ loc.p = 1 /\ AspectKeys[loc.ai] = "square"
    /\ Len(r) >= 2
    /\ r[Len(r)].body1 = "Sun" /\ r[Len(r)].body2 = "Jupiter" /\ r[Len(r)].aspect = "square"
    /\ r[Len(r) - 1].body1 = "Sun" /\ r[Len(r) - 1].body2 = "Jupiter"
    /\ r[Len(r) - 1].aspect = "square"
    /\ ~loc.io /\ loc.bJd = Null

\* Bounds of the events emitted so far.
EventBounds(evs) ==
    \A i \in 1..Len(evs) :
        IF evs[i].body1 = "Sun"
        THEN evs[i].aspect \in {"conjunction", "square", "opposition"} /\ evs[i].exactness <= 300
        ELSE evs[i].exactness <= ASPECTS(args.src)[evs[i].aspect].orb * 100

\* C6: the Sun loops sample every half day, only conjunction, square and
\* opposition, and hold a sample in orb iff its deviation is at most 3
\* degrees; the outer-pair loops sample daily, all five aspects, and hold a
\* sample in orb iff its deviation is at most the aspect's orb.  So a Sun
\* event has one of the three kinds and exactness <= 3, and an outer-pair
\* event has exactness <= its aspect's orb.
C6_SunCorridorAndCadence ==
    [][/\ (IsAspectSample /\ pc = "sun") =>
             /\ loc'.jd - loc.jd = 1
             /\ AspectKeys[loc.ai] \in {"conjunction", "square", "opposition"}
             /\ loc'.io = (DevAt(CurrentLoop, loc.jd) <= 3 * Deg)
       /\ (IsAspectSample /\ pc = "outer") =>
             /\ loc'.jd - loc.jd = 2
             /\ loc'.io = (DevAt(CurrentLoop, loc.jd)
                             <= ASPECTS(args.src)[AspectKeys[loc.ai]].orb * Deg)
       /\ (fn = "calcTransitAspects" /\ pc = "outer" /\ pc' = "sunHead") =>
             /\ loc.ai = Len(AspectKeys)
             /\ loc.j = Len(outer(args.src)) /\ loc.i + 1 = loc.j
       /\ (fn = "calcTransitAspects") => EventBounds(r')]_vars

\* part_001's scan of 2026 is done with a Sun event and an outer-pair trine.
C6_Witness ==
    /\ fn = "calcTransitAspects" /\ pc = "done" /\ args = [src |-> "natal", year |-> 2026]
    /\ \E i \in 1..Len(ret.events) :
          ret.events[i].body1 = "Sun" /\ ret.events[i].aspect = "opposition"
    /\ \E i \in 1..Len(ret.events) :
          /\ ret.events[i].body1 = "Jupiter" /\ ret.events[i].body2 = "Neptune"
          /\ ret.events[i].aspect = "trine"

---------------------------------------------------------------------------
(* PhaseSolver: calcMoonPhases and findExactPhaseTime (part_001) *)

MOON_PHASE_ANGLES == [new |-> 0, first_quarter |-> 90, full |-> 180, last_quarter |-> 270]

\* Object.entries order of MOON_PHASE_ANGLES.
PhaseKeys == <<"new", "first_quarter", "full", "last_quarter">>

MOON_PHASE_NAMES ==
    [new |-> "New Moon", first_quarter |-> "First Quarter",
     full |-> "Full Moon", last_quarter |-> "Last Quarter"]

\* The emoji of a phase, by its code point.
MOON_PHASE_EMOJIS ==
    [new |-> "U+1F311", first_quarter |-> "U+1F313",
     full |-> "U+1F315", last_quarter |-> "U+1F317"]

\* A grid Julian day as an instant, and a whole number of units as an angle.
Instant(jd) == [hd |-> jd, fr |-> 0]
Angle(q) == [q |-> q, f |-> 0]

\* a - b of two angles.
AngleSub(a, b) ==
    IF a.f >= b.f
    THEN [q |-> a.q - b.q, f |-> a.f - b.f]
    ELSE [q |-> a.q - b.q - 1, f |-> a.f - b.f + Frac]

\* Math.abs of an angle.
AngleAbs(a) ==
    IF a.q >= 0 THEN a
    ELSE IF a.f = 0 THEN [q |-> -a.q, f |-> 0]
    ELSE [q |-> -a.q - 1, f |-> Frac - a.f]

\* a < k, a > k and a >= k for an angle a and a whole number k of units.
AngleLt(a, k) == a.q < k
AngleGt(a, k) == a.q > k \/ (a.q = k /\ a.f > 0)
AngleGe(a, k) == a.q >= k

\* norm of an angle.
normAt(a) == [q |-> norm(a.q), f |-> a.f]

\* lon(p, jd) at an instant.
lonAt(p, t) ==
    LET pl == PLANETS("natal")[p]
        m == pl.motion * t.fr
    IN  normAt([q |-> pl.j2000 + MulMod(pl.motion, t.hd - J2000) + m \div Frac,
                f |-> m % Frac])

getSunMoonAngle(t) == normAt(AngleSub(lonAt("moon", t), lonAt("sun", t)))

\* Faulty variant of detectPhaseCrossing: the new moon is tested like the
\* other phases.
detectPhaseCrossingNoWrap(prevAngle, currAngle, targetAngle) ==
    AngleLt(prevAngle, targetAngle * Deg) /\ AngleGe(currAngle, targetAngle * Deg)

detectPhaseCrossing(prevAngle, currAngle, targetAngle) ==
    IF targetAngle = 0
    THEN AngleGt(prevAngle, 270 * Deg) /\ AngleLt(currAngle, 90 * Deg)
    ELSE AngleLt(prevAngle, targetAngle * Deg) /\ AngleGe(currAngle, targetAngle * Deg)

\* Faulty variant of tolerance: a tenth of a degree.
toleranceTenth == Deg \div 10

\* const tolerance = 0.01
tolerance == Deg \div 100

\* The instants lo and hi, counted in 1/Frac of a half day from lo's half day.
Span(lo, hi) == (hi.hd - lo.hd) * Frac + lo.fr + hi.fr

\* (lo + hi) / 2
Mid(lo, hi) ==
    LET h == Span(lo, hi) \div 2
    IN  [hd |-> lo.hd + h \div Frac, fr |-> h % Frac]

\* One pass of the loop of findExactPhaseTime: the locals after it, with
\* exactJd set when the pass returns.
bisect(lc, targetAngle) ==
    LET mid == Mid(lc.lo, lc.hi)
        a == getSunMoonAngle(mid)
        angle == IF targetAngle = 0 /\ AngleGt(a, HalfCircle)
                 THEN [a EXCEPT !.q = a.q - Circle] ELSE a
        error == [angle EXCEPT !.q = angle.q - targetAngle * Deg]
    IN  IF AngleLt(AngleAbs(error), tolerance) THEN [lc EXCEPT !.exactJd = mid]
        ELSE IF AngleGt(error, 0) THEN [lc EXCEPT !.hi = mid, !.i = lc.i + 1]
        ELSE [lc EXCEPT !.lo = mid, !.i = lc.i + 1]

\* Math.round(exactJd * 1000) / 1000: <<days, thousandths>>.
RoundJd3(t) ==
    LET th == 500 * (t.hd % 2) + RoundDiv(500 * t.fr, Frac)
    IN  <<t.hd \div 2 + th \div 1000, th % 1000>>

\* Math.round(angleDiff * 10000) / 10000, in 1/10000 degree.
Round4(a) == (a.q + 1) \div 2

\* The event pushed for a phase found at exactJd.
phaseEvent(phaseName, targetAngle, exactJd) ==
    LET sunLon == lonAt("sun", exactJd)
        moonLon == lonAt("moon", exactJd)
        sunData == getSign("natal", sunLon.q)
        moonData == getSign("natal", moonLon.q)
        d == AngleAbs([getSunMoonAngle(exactJd) EXCEPT !.q = @ - targetAngle * Deg])
        angleDiff == IF targetAngle = 0 /\ AngleGt(d, HalfCircle)
                     THEN AngleSub(Angle(Circle), d) ELSE d
    IN  [phase |-> phaseName,
         name |-> MOON_PHASE_NAMES[phaseName],
         emoji |-> MOON_PHASE_EMOJIS[phaseName],
         date |-> fromJD(exactJd.hd),
         jd |-> RoundJd3(exactJd),
         sun_longitude |-> Round2(sunLon.q),
         moon_longitude |-> Round2(moonLon.q),
         sun_sign |-> sunData.sign,
         moon_sign |-> moonData.sign,
         sun_degree |-> sunData.degree,
         moon_degree |-> moonData.degree,
         exactness_degrees |-> Round4(angleDiff)]

\* The phases from index ph on that the sample at jd crosses.
Crossed(prevAngle, currAngle, ph) ==
    {k \in ph..Len(PhaseKeys) :
        detectPhaseCrossing(prevAngle, currAngle, MOON_PHASE_ANGLES[PhaseKeys[k]])}

NoInstant == [hd |-> Null, fr |-> 0]

MoonCall ==
    /\ pc = "call"
    /\ fn = "calcMoonPhases"
    /\ LET startJd == toJD(args.year, 1, 1)
       IN  loc' = [startJd |-> startJd, endJd |-> toJD(args.year + 1, 1, 1),
                   prevAngle |-> getSunMoonAngle(Instant(startJd)),
                   jd |-> startJd + 1, ph |-> 1,
                   lo |-> NoInstant, hi |-> NoInstant, i |-> 0, exactJd |-> NoInstant]
    /\ pc' = "sample"
    /\ UNCHANGED <<fn, args, r, ret>>

\* Faulty variant of MoonSample: the loop runs while jd <= endJd and examines
\* the bracket that ends at Jan 1 of the next year.
MoonSampleThroughEnd ==
    /\ pc = "sample"
    /\ fn = "calcMoonPhases"
    /\ loc.jd <= loc.endJd
    /\ LET currAngle == getSunMoonAngle(Instant(loc.jd))
           found == Crossed(loc.prevAngle, currAngle, loc.ph)
       IN  IF found = {}
           THEN /\ loc' = [loc EXCEPT !.prevAngle = currAngle, !.jd = loc.jd + 1, !.ph = 1]
                /\ pc' = "sample"
           ELSE /\ loc' = [loc EXCEPT !.ph = Min(found), !.lo = Instant(loc.jd - 1),
                                      !.hi = Instant(loc.jd), !.i = 0,
                                      !.exactJd = NoInstant]
                /\ pc' = "bisect"
    /\ UNCHANGED <<fn, args, r, ret>>

\* The sample at jd: the phases are tried in order from ph; the first one
\* crossed sends the bracket [jd - 0.5, jd] to findExactPhaseTime, and with
\* none left the loop moves to the next sample.
MoonSample ==
    /\ pc = "sample"
    /\ fn = "calcMoonPhases"
    /\ loc.jd < loc.endJd
    /\ LET currAngle == getSunMoonAngle(Instant(loc.jd))
           found == Crossed(loc.prevAngle, currAngle, loc.ph)
       IN  IF found = {}
           THEN /\ loc' = [loc EXCEPT !.prevAngle = currAngle, !.jd = loc.jd + 1, !.ph = 1]
                /\ pc' = "sample"
           ELSE /\ loc' = [loc EXCEPT !.ph = Min(found), !.lo = Instant(loc.jd - 1),
                                      !.hi = Instant(loc.jd), !.i = 0,
                                      !.exactJd = NoInstant]
                /\ pc' = "bisect"
    /\ UNCHANGED <<fn, args, r, ret>>

\* One pass of for (let i = 0; i < 50; i++), or the return after the loop.
\* The midpoint must fall on the 1/Frac grid of the instants.
BisectStep ==
    /\ pc = "bisect"
    /\ fn = "calcMoonPhases"
    /\ Span(loc.lo, loc.hi) % 2 = 0
    /\ IF loc.i < 50
       THEN /\ loc' = bisect(loc, MOON_PHASE_ANGLES[PhaseKeys[loc.ph]])
            /\ pc' = IF loc'.exactJd # NoInstant THEN "push" ELSE "bisect"
       ELSE /\ loc' = [loc EXCEPT !.exactJd = Mid(loc.lo, loc.hi)]
            /\ pc' = "push"
    /\ UNCHANGED <<fn, args, r, ret>>

MoonPush ==
    /\ pc = "push"
    /\ fn = "calcMoonPhases"
    /\ r' = Append(r, phaseEvent(PhaseKeys[loc.ph], MOON_PHASE_ANGLES[PhaseKeys[loc.ph]],
                                 loc.exactJd))
    /\ loc' = [loc EXCEPT !.ph = loc.ph + 1]
    /\ pc' = "sample"
    /\ UNCHANGED <<fn, args, ret>>

MoonReturn ==
    /\ pc = "sample"
    /\ fn = "calcMoonPhases"
    /\ loc.jd >= loc.endJd
    /\ ret' = [events |-> sortByJd(r)]
    /\ pc' = "done"
    /\ UNCHANGED <<fn, args, loc, r>>

---------------------------------------------------------------------------
(* The moon-phase solver over the years MoonFirstYear..MoonLastYear *)

MoonFirstYear == 2020
MoonLastYear == 2027

InitMoon ==
    /\ pc = "call"
    /\ fn = "calcMoonPhases"
    /\ \E y \in MoonFirstYear..MoonLastYear : args = [year |-> y]
    /\ loc = NoLoc
    /\ r = <<>>
    /\ ret = NoRet

SpecMoon ==
    InitMoon /\ [][MoonCall \/ MoonSample \/ BisectStep \/ MoonPush \/ MoonReturn]_vars

\* Sun-Moon elongation at an instant, from the relative mean motion.
ElongationAt(t) ==
    LET rel == PLANETS("natal")["moon"].motion - PLANETS("natal")["sun"].motion
        base == (MeanLon("natal", "moon", t.hd) - MeanLon("natal", "sun", t.hd)) % Circle
    IN  [q |-> (base + (rel * t.fr) \div Frac) % Circle, f |-> (rel * t.fr) % Frac]

\* The elongation e is less than 0.01 degree away from the target, around
\* the circle.
WithinHundredth(e, targetAngle) ==
    LET y == (e.q - targetAngle * Deg + Deg \div 100) % Circle
    IN  (y > 0 \/ e.f > 0) /\ y < 2 * (Deg \div 100)

\* The instant t lies in [jd - 0.5, jd].
InBracket(t, jd) == (t.hd = jd - 1 /\ t.fr \in 0..(Frac - 1)) \/ t = Instant(jd)

IsBisectReturn == fn = "calcMoonPhases" /\ pc = "bisect" /\ pc' = "push"

IsMoonPush == fn = "calcMoonPhases" /\ pc = "push" /\ pc' = "sample"

\* The loop counter never passes 50 and every midpoint is an instant of the
\* 1/Frac grid; the instant returned lies in the bracket of the crossing and
\* its elongation is within 0.01 degree of the target; the exactness of the
\* event pushed satisfies Reported.
Refinement(Reported(_)) ==
    /\ (fn = "calcMoonPhases" /\ pc' = "bisect") =>
          /\ loc'.i <= 50
          /\ Span(loc'.lo, loc'.hi) % 2 = 0
          /\ InBracket(loc'.lo, loc'.jd) /\ InBracket(loc'.hi, loc'.jd)
    /\ IsBisectReturn =>
          /\ loc.i < 50
          /\ InBracket(loc'.exactJd, loc.jd)
          /\ WithinHundredth(ElongationAt(loc'.exactJd), MOON_PHASE_ANGLES[PhaseKeys[loc.ph]])
    /\ IsMoonPush =>
          /\ Len(r') = Len(r) + 1
          /\ r'[Len(r')].phase = PhaseKeys[loc.ph]
          /\ Reported(r'[Len(r')].exactness_degrees)

BelowHundredth(x) == x < 100
AtMostHundredth(x) == x <= 100

\* C7 (original): for every crossing detected between the samples jd - 0.5
\* and jd, findExactPhaseTime makes at most 50 passes, returns an instant of
\* [jd - 0.5, jd] whose elongation is less than 0.01 degree from the target
\* (around the circle for the new moon), and the exactness reported for the
\* event is below 0.01 degree.
C7_ReportedBelowTolerance == [][Refinement(BelowHundredth)]_vars

\* C7 (amended): as above, with the reported exactness, rounded to four
\* decimals, at most 0.01 degree.
C7_BisectionRefinement == [][Refinement(AtMostHundredth)]_vars

\* An event found after six or more passes is reported with exactness 0.0100.
C7_Witness ==
    /\ fn = "calcMoonPhases" /\ pc = "sample" /\ loc.i >= 6
    /\ Len(r) > 0 /\ r[Len(r)].exactness_degrees = 100
    /\ loc.ph > 1

CardinalPhases == {"new", "first_quarter", "full", "last_quarter"}

PhaseCount(evs, p) == Cardinality({i \in 1..Len(evs) : evs[i].phase = p})

\* C8: the list calcMoonPhases returns for a year holds only the four
\* cardinal phases, 12 or 13 events of each, and 49 events in all, give or
\* take one.
C8_CardinalPhaseCounts ==
    (fn = "calcMoonPhases" /\ pc = "done") =>
        /\ \A i \in 1..Len(ret.events) : ret.events[i].phase \in CardinalPhases
        /\ \A p \in CardinalPhases : PhaseCount(ret.events, p) \in {12, 13}
        /\ Len(ret.events) \in 48..50

\* A year is done with 13 events of one phase and 12 of another.
C8_Witness ==
    /\ fn = "calcMoonPhases" /\ pc = "done"
    /\ \E p, q \in CardinalPhases :
          PhaseCount(ret.events, p) = 13 /\ PhaseCount(ret.events, q) = 12
    /\ PhaseCount(ret.events, "new") >= 12

---------------------------------------------------------------------------
(* ChartBuilder: calculateNatalChart, getHouse, calculateSynastry (part_001) *)

\* A field a request does not carry, and the number NaN.  Both lie outside
\* every range of the numbers the model computes with.
Undefined == -1000001
NaN == -1000002

IsNumber(x) == x # Undefined /\ x # NaN

\* body.k of a JSON object: undefined for a key the object does not carry.
Field(o, k) == IF k \in DOMAIN o THEN o[k] ELSE Undefined

\* x || d for a number or undefined x.
OrElse(x, d) == IF x = Undefined \/ x = NaN \/ x = 0 THEN d ELSE x

\* x || d for a string or undefined x.
OrElseName(x, d) == IF x = "undefined" \/ x = "" THEN d ELSE x

\* input.hour - input.timezone + input.minute / 60, in minutes: the hour in
\* hours, the timezone in minutes of offset, the minute in minutes.
utcHour(input) == 60 * input.hour - input.timezone + input.minute

\* toJD(y, m, d, h) for h a whole number of half days, h in minutes; NaN
\* when a date field is undefined.
toJDAt(y, m, d, h) ==
    IF IsNumber(y) /\ IsNumber(m) /\ IsNumber(d) THEN toJD(y, m, d) + h \div 720 ELSE NaN

\* lon, getSign, Math.round(x * 100) / 100 and findAspect with NaN passed on.
lonOf(p, jd) == IF jd = NaN THEN NaN ELSE lon("natal", p, jd)

getSignOf(l) ==
    IF l = NaN
    THEN [sign |-> "undefined", degree |-> NaN, signIndex |-> NaN]
    ELSE getSign("natal", l)

Round2Of(l) == IF l = NaN THEN NaN ELSE Round2(l)

findAspectOf(lon1, lon2) ==
    IF lon1 = NaN \/ lon2 = NaN THEN [aspect |-> "null"] ELSE findAspect(lon1, lon2)

\* calcAscendant and calcMidheaven: the values of their trigonometric
\* expressions are not computed; trig holds them for the jd and the place
\* of the call.  They are NaN when an argument is.
calcAscendant(jd, latitude, longitude, trig) ==
    IF jd = NaN \/ ~IsNumber(latitude) \/ ~IsNumber(longitude) THEN NaN ELSE norm(trig.asc)

calcMidheaven(jd, longitude, trig) ==
    IF jd = NaN \/ ~IsNumber(longitude) THEN NaN ELSE norm(trig.mc)

\* calcWholeSIgnHouses of an ascendant that may be NaN.
housesOf(ascendant) ==
    IF ascendant = NaN
    THEN [n \in 1..12 |-> [house |-> n, sign |-> "undefined", cusp |-> NaN,
                           meaning |-> HOUSE_MEANINGS[n]]]
    ELSE calcWholeSIgnHouses(ascendant)

\* Faulty variant of getHouse: the difference of the sign indices is not
\* lifted by 12 before the remainder is taken.
getHouseNoLift(planetLon, ascendant) ==
    LET ascSign == getSignOf(ascendant)
        planetSign == getSignOf(planetLon)
    IN  IF ascSign.signIndex = NaN \/ planetSign.signIndex = NaN THEN NaN
        ELSE JsRem(planetSign.signIndex - ascSign.signIndex, 12) + 1

getHouse(planetLon, ascendant) ==
    LET ascSign == getSignOf(ascendant)
        planetSign == getSignOf(planetLon)
    IN  IF ascSign.signIndex = NaN \/ planetSign.signIndex = NaN THEN NaN
        ELSE ((planetSign.signIndex - ascSign.signIndex + 12) % 12) + 1

\* The pairs i < j of 1..n, in the order of the two nested loops.
LoopPairs(n) ==
    SelectSeq([k \in 1..(n * n) |-> <<((k - 1) \div n) + 1, ((k - 1) % n) + 1>>],
              LAMBDA q : q[1] < q[2])

\* The planets list of the chart.
chartPlanets(jd, ascLon) ==
    [k \in 1..Len(PlanetKeys("natal")) |->
        LET key == PlanetKeys("natal")[k]
            planetLon == lonOf(key, jd)
            signData == getSignOf(planetLon)
        IN  [name |-> PLANETS("natal")[key].name,
             longitude |-> Round2Of(planetLon),
             sign |-> signData.sign,
             degree |-> signData.degree,
             house |-> getHouse(planetLon, ascLon)]]

\* The aspects list of the chart.
chartAspects(jd) ==
    LET planetKeys == PlanetKeys("natal")
        found == [k \in 1..Len(LoopPairs(Len(planetKeys))) |->
                    LET q == LoopPairs(Len(planetKeys))[k]
                    IN  [planet1 |-> PLANETS("natal")[planetKeys[q[1]]].name,
                         planet2 |-> PLANETS("natal")[planetKeys[q[2]]].name,
                         aspect |-> findAspectOf(lonOf(planetKeys[q[1]], jd),
                                                 lonOf(planetKeys[q[2]], jd))]]
    IN  SelectSeq(found, LAMBDA a : a.aspect.aspect # "null")

calculateNatalChart(input, trig) ==
    LET jd == toJDAt(input.year, input.month, input.day, utcHour(input))
        ascLon == calcAscendant(jd, input.latitude, input.longitude, trig)
        mcLon == calcMidheaven(jd, input.longitude, trig)
        ascData == getSignOf(ascLon)
        mcData == getSignOf(mcLon)
    IN  [input |-> input,
         ascendant |-> [longitude |-> Round2Of(ascLon), sign |-> ascData.sign,
                        degree |-> ascData.degree],
         midheaven |-> [longitude |-> Round2Of(mcLon), sign |-> mcData.sign,
                        degree |-> mcData.degree],
         houses |-> housesOf(ascLon),
         planets |-> chartPlanets(jd, ascLon),
         aspects |-> chartAspects(jd)]

\* A longitude rounded to two decimals, as an angle.
FromHundredths(x) == IF x = NaN THEN NaN ELSE x * (Deg \div 100)

interpretSynastryAspect(planet1, planet2, aspect, nature) ==
    [base |-> <<planet1, aspect, planet2>>,
     reading |-> IF nature = "harmonious"
                 THEN "Easy flow of energy, mutual support and understanding"
                 ELSE IF nature = "challenging"
                 THEN "Dynamic tension that can fuel growth or create friction"
                 ELSE "Powerful connection that merges these planetary energies"]

\* The pass of the two loops of calculateSynastry for p1 and p2: the list
\* of cross-aspects after it.
crossAspect(crossAspects, p1, p2) ==
    LET aspect == findAspectOf(FromHundredths(p1.longitude), FromHundredths(p2.longitude))
    IN  IF aspect.aspect # "null"
        THEN Append(crossAspects,
                    [person1_planet |-> p1.name, person2_planet |-> p2.name,
                     aspect |-> aspect.aspect, nature |-> aspect.nature,
                     orb |-> aspect.orb, exact |-> aspect.exact,
                     interpretation |-> interpretSynastryAspect(p1.name, p2.name,
                                                                aspect.aspect, aspect.nature)])
        ELSE crossAspects

\* Where the planets of one chart fall in the houses of the other chart.
houseOverlays(planets, owner, fallback) ==
    [k \in 1..Len(planets) |->
        LET in_house == getHouse(FromHundredths(planets[k].longitude),
                                 FromHundredths(owner.ascendant.longitude))
        IN  [planet |-> planets[k].name,
             in_house |-> in_house,
             meaning |-> [planet |-> planets[k].name,
                          person |-> OrElseName(owner.input.name, fallback),
                          house |-> IF in_house = NaN THEN "undefined"
                                    ELSE HOUSE_MEANINGS[in_house]]]]

\* Faulty variant of compatibilityIndex: a conjunction counts in full.
compatibilityIndexFullWeight(harmoniousCount, majorConjunctions, length) ==
    RoundDiv(100 * (2 * harmoniousCount + 2 * majorConjunctions), 2 * OrElse(length, 1))

\* Math.round((harmoniousCount + majorConjunctions * 0.5)
\*            / (crossAspects.length || 1) * 100)
compatibilityIndex(harmoniousCount, majorConjunctions, length) ==
    RoundDiv(100 * (2 * harmoniousCount + majorConjunctions), 2 * OrElse(length, 1))

\* What calculateSynastry returns once the cross-aspects are found.
synastryResult(chart1, chart2, crossAspects) ==
    LET harmoniousCount == Len(SelectSeq(crossAspects, LAMBDA a : a.nature = "harmonious"))
        challengingCount == Len(SelectSeq(crossAspects, LAMBDA a : a.nature = "challenging"))
        majorConjunctions == Len(SelectSeq(crossAspects, LAMBDA a : a.aspect = "conjunction"))
    IN  [person1 |-> OrElseName(chart1.input.name, "Person 1"),
         person2 |-> OrElseName(chart2.input.name, "Person 2"),
         summary |-> [total_aspects |-> Len(crossAspects),
                      harmonious_aspects |-> harmoniousCount,
                      challenging_aspects |-> challengingCount,
                      conjunctions |-> majorConjunctions,
                      compatibility_index |->
                          compatibilityIndex(harmoniousCount, majorConjunctions,
                                             Len(crossAspects))],
         cross_aspects |-> crossAspects,
         house_overlays |->
             [person2_in_person1_houses |-> houseOverlays(chart2.planets, chart1, "Person 1"),
              person1_in_person2_houses |-> houseOverlays(chart1.planets, chart2, "Person 2")]]

---------------------------------------------------------------------------
(* Deno.serve (part_001): POST /natal and POST /synastry *)

\* o.name of a JSON object.
FieldName(o) == IF "name" \in DOMAIN o THEN o.name ELSE "undefined"

\* The ChartInput the handler builds from a JSON object, with the name the
\* handler gives it.
chartInput(o, name) ==
    [year |-> Field(o, "year"),
     month |-> Field(o, "month"),
     day |-> Field(o, "day"),
     hour |-> OrElse(Field(o, "hour"), 12),
     minute |-> OrElse(Field(o, "minute"), 0),
     latitude |-> Field(o, "latitude"),
     longitude |-> Field(o, "longitude"),
     timezone |-> OrElse(Field(o, "timezone"), 0),
     name |-> name]

\* Faulty variant of missingRequired: the place of birth is not looked at.
missingRequiredDate(input) ==
    \/ OrElse(input.year, 0) = 0
    \/ OrElse(input.month, 0) = 0
    \/ OrElse(input.day, 0) = 0

\* !input.year || !input.month || !input.day || input.latitude === undefined
\* || input.longitude === undefined
missingRequired(input) ==
    \/ OrElse(input.year, 0) = 0
    \/ OrElse(input.month, 0) = 0
    \/ OrElse(input.day, 0) = 0
    \/ input.latitude = Undefined
    \/ input.longitude = Undefined

\* const input = { year: body.year, ... }
NatalInput ==
    /\ pc = "request"
    /\ fn = "serve"
    /\ args.path = "natal"
    /\ loc' = [input |-> chartInput(args.body, FieldName(args.body))]
    /\ pc' = "validate"
    /\ UNCHANGED <<fn, args, r, ret>>

\* The 400 response.
NatalReject ==
    /\ pc = "validate"
    /\ fn = "serve"
    /\ missingRequired(loc.input)
    /\ ret' = [status |-> 400,
               error |-> "Missing required fields: year, month, day, latitude, longitude"]
    /\ pc' = "done"
    /\ UNCHANGED <<fn, args, loc, r>>

\* const chart = calculateNatalChart(input)
NatalCall ==
    /\ pc = "validate"
    /\ fn = "serve"
    /\ ~missingRequired(loc.input)
    /\ pc' = "calculateNatalChart"
    /\ UNCHANGED <<fn, args, loc, r, ret>>

NatalRespond ==
    /\ pc = "calculateNatalChart"
    /\ fn = "serve"
    /\ ret' = [status |-> 200, success |-> TRUE,
               chart |-> calculateNatalChart(loc.input, args.trig)]
    /\ pc' = "done"
    /\ UNCHANGED <<fn, args, loc, r>>

\* const person1 = { year: body.person1.year, ... }, const person2 = ...;
\* reading a field of a person the body does not carry throws, and the
\* catch block answers 500.
SynastryInput ==
    /\ pc = "request"
    /\ fn = "serve"
    /\ args.path = "synastry"
    /\ IF "person1" \in DOMAIN args.body /\ "person2" \in DOMAIN args.body
       THEN /\ loc' = [person1 |-> chartInput(args.body.person1,
                                              OrElseName(FieldName(args.body.person1), "Person 1")),
                       person2 |-> chartInput(args.body.person2,
                                              OrElseName(FieldName(args.body.person2), "Person 2"))]
            /\ pc' = "chart1"
            /\ ret' = ret
       ELSE /\ loc' = loc
            /\ pc' = "done"
            /\ ret' = [status |-> 500, error |-> "TypeError"]
    /\ UNCHANGED <<fn, args, r>>

\* const chart1 = calculateNatalChart(person1)
SynastryChart1 ==
    /\ pc = "chart1"
    /\ fn = "serve"
    /\ loc' = [person1 |-> loc.person1, person2 |-> loc.person2,
               chart1 |-> calculateNatalChart(loc.person1, args.trig.person1)]
    /\ pc' = "chart2"
    /\ UNCHANGED <<fn, args, r, ret>>

\* const chart2 = calculateNatalChart(person2), and the entry of
\* calculateSynastry.
SynastryChart2 ==
    /\ pc = "chart2"
    /\ fn = "serve"
    /\ loc' = [person1 |-> loc.person1, person2 |-> loc.person2, chart1 |-> loc.chart1,
               chart2 |-> calculateNatalChart(loc.person2, args.trig.person2),
               crossAspects |-> <<>>, i |-> 1, j |-> 1]
    /\ pc' = "calculateSynastry"
    /\ UNCHANGED <<fn, args, r, ret>>

\* One pass of for (const p1 of chart1.planets) for (const p2 of chart2.planets).
SynastryPair ==
    /\ pc = "calculateSynastry"
    /\ fn = "serve"
    /\ loc.i <= Len(loc.chart1.planets)
    /\ loc' = [loc EXCEPT
                 !.crossAspects = crossAspect(loc.crossAspects, loc.chart1.planets[loc.i],
                                              loc.chart2.planets[loc.j]),
                 !.j = IF loc.j < Len(loc.chart2.planets) THEN loc.j + 1 ELSE 1,
                 !.i = IF loc.j < Len(loc.chart2.planets) THEN loc.i ELSE loc.i + 1]
    /\ UNCHANGED <<pc, fn, args, r, ret>>

\* The rest of calculateSynastry and the 200 response.
SynastryRespond ==
    /\ pc = "calculateSynastry"
    /\ fn = "serve"
    /\ loc.i > Len(loc.chart1.planets)
    /\ ret' = [status |-> 200, success |-> TRUE, chart1 |-> loc.chart1, chart2 |-> loc.chart2,
               synastry |-> synastryResult(loc.chart1, loc.chart2, loc.crossAspects)]
    /\ pc' = "done"
    /\ UNCHANGED <<fn, args, loc, r>>

---------------------------------------------------------------------------
(* POST /natal and POST /synastry over a set of request bodies *)

\* The required fields of a birth.
Births ==
    {[year |-> 1990, month |-> 6, day |-> 15, latitude |-> 40, longitude |-> -74],
     [year |-> 1985, month |-> 1, day |-> 20, latitude |-> -33, longitude |-> 151],
     [year |-> 1972, month |-> 11, day |-> 3, latitude |-> 51, longitude |-> 0]}

RequiredFields == {"year", "month", "day", "latitude", "longitude"}

\* The optional fields of a request: hour in hours, minute in minutes,
\* timezone in minutes of offset.  Every choice puts the time of birth on a
\* half day of UTC, with the hour taken as supplied and with the hour
\* replaced by 12.
Optionals ==
    {[name |-> "Ada"],
     [hour |-> 12, minute |-> 0, timezone |-> 0],
     [hour |-> 0],
     [hour |-> 0, minute |-> 30, timezone |-> 30, name |-> "Grace"],
     [hour |-> 12, minute |-> 30, timezone |-> 30],
     [hour |-> 23, timezone |-> -60],
     [hour |-> 14, timezone |-> 120]}

\* The object o without the field k.
Without(o, k) == [f \in DOMAIN o \ {k} |-> o[f]]

\* Bodies with every required field, and bodies with one of them missing.
CompleteBodies == {b @@ o : b \in Births, o \in Optionals}
PartialBodies == {Without(b, k) : b \in CompleteBodies, k \in RequiredFields}

\* Values of the trigonometric expressions of calcAscendant and calcMidheaven.
TrigValues == {[asc |-> 15 * Deg + 77, mc |-> 283 * Deg], [asc |-> 359 * Deg + 19999, mc |-> 90 * Deg + 1]}

InitNatal ==
    /\ pc = "request"
    /\ fn = "serve"
    /\ \E b \in CompleteBodies \cup PartialBodies, t \in TrigValues :
          args = [path |-> "natal", body |-> b, trig |-> t]
    /\ loc = NoLoc
    /\ r = <<>>
    /\ ret = NoRet

SpecNatal == InitNatal /\ [][NatalInput \/ NatalReject \/ NatalCall \/ NatalRespond]_vars

\* The persons of the synastry requests.
Persons ==
    LET ada == [year |-> 1990, month |-> 6, day |-> 15, latitude |-> 40, longitude |-> -74,
                name |-> "Ada"]
        bob == [year |-> 1985, month |-> 1, day |-> 20, latitude |-> -33, longitude |-> 151,
                hour |-> 0]
        cyd == [year |-> 1972, month |-> 11, day |-> 3, latitude |-> 51, longitude |-> 0,
                hour |-> 23, timezone |-> -60]
    IN  {ada, bob, cyd, Without(ada, "year"), Without(bob, "latitude"), Without(cyd, "day")}

InitSynastry ==
    /\ pc = "request"
    /\ fn = "serve"
    /\ \E t \in TrigValues :
          \/ \E p1, p2 \in Persons :
                args = [path |-> "synastry", body |-> [person1 |-> p1, person2 |-> p2],
                        trig |-> [person1 |-> t, person2 |-> t]]
          \/ \E p1 \in Persons :
                args = [path |-> "synastry", body |-> [person1 |-> p1],
                        trig |-> [person1 |-> t, person2 |-> t]]
    /\ loc = NoLoc
    /\ r = <<>>
    /\ ret = NoRet

SpecSynastry ==
    InitSynastry /\ [][SynastryInput \/ SynastryChart1 \/ SynastryChart2
                       \/ SynastryPair \/ SynastryRespond]_vars

SynastryDone == fn = "serve" /\ pc = "done" /\ args.path = "synastry" /\ ret.status = 200

\* The aspect between two chart longitudes given in hundredths of a degree:
\* the first table entry whose window holds their shortest arc, 0 for none.
CrossKind(l1, l2) ==
    IF l1 = NaN \/ l2 = NaN THEN 0
    ELSE LET m == MatchingAspects(ShortArc(l1 * (Deg \div 100), l2 * (Deg \div 100)))
         IN  IF m = {} THEN 0 ELSE Min(m)

\* The pairs (body of chart 1, body of chart 2) whose aspect is among kinds.
CrossPairs(chart1, chart2, kinds) ==
    {q \in (1..Len(chart1.planets)) \X (1..Len(chart2.planets)) :
        LET k == CrossKind(chart1.planets[q[1]].longitude, chart2.planets[q[2]].longitude)
        IN  k # 0 /\ AspectKeys[k] \in kinds}

\* C11: the compatibility index is round((harmonious + 0.5 x conjunctions)
\* / total x 100) over the cross-aspects of all pairs (body of chart 1, body
\* of chart 2), and 0 when there is no cross-aspect.
C11_CompatibilityIndex ==
    SynastryDone =>
        LET all == {AspectKeys[i] : i \in 1..Len(AspectKeys)}
            total == Cardinality(CrossPairs(ret.chart1, ret.chart2, all))
            harmonious == Cardinality(CrossPairs(ret.chart1, ret.chart2, {"sextile", "trine"}))
            conjunctions == Cardinality(CrossPairs(ret.chart1, ret.chart2, {"conjunction"}))
            sm == ret.synastry.summary
        IN  /\ sm.total_aspects = total
            /\ sm.harmonious_aspects = harmonious
            /\ sm.conjunctions = conjunctions
            /\ sm.compatibility_index =
                  IF total = 0 THEN 0
                  ELSE (200 * harmonious + 100 * conjunctions + total) \div (2 * total)

\* A synastry with harmonious aspects and conjunctions among its cross-aspects.
C11_Witness ==
    /\ SynastryDone
    /\ ret.synastry.summary.conjunctions > 0
    /\ ret.synastry.summary.harmonious_aspects > 0
    /\ ret.synastry.summary.total_aspects
          > ret.synastry.summary.conjunctions + ret.synastry.summary.harmonious_aspects
    /\ ret.synastry.summary.compatibility_index \in 1..99

\* The object o carries every required field.
HasRequired(o) == RequiredFields \subseteq DOMAIN o

\* C12: a natal-chart request that lacks a required field never reaches
\* calculateNatalChart and is answered with status 400 and no chart.
C12_NatalValidation ==
    (fn = "serve" /\ args.path = "natal" /\ ~HasRequired(args.body)) =>
        /\ pc # "calculateNatalChart"
        /\ pc = "done" => (ret.status = 400 /\ "chart" \notin DOMAIN ret)

\* A request that lacks only the latitude has been answered.
C12_Witness ==
    /\ fn = "serve" /\ args.path = "natal" /\ pc = "done"
    /\ DOMAIN args.body = {"year", "month", "day", "longitude", "hour"}
    /\ ret.status = 400

\* C13: a synastry request in which a person lacks a required field is
\* answered with a validation error and no synastry, and no chart is
\* computed for either person.
C13_SynastryValidation ==
    (/\ fn = "serve" /\ args.path = "synastry"
     /\ "person1" \in DOMAIN args.body /\ "person2" \in DOMAIN args.body
     /\ ~(HasRequired(args.body.person1) /\ HasRequired(args.body.person2))) =>
        /\ "chart1" \notin DOMAIN loc
        /\ pc = "done" => (ret.status = 400 /\ "synastry" \notin DOMAIN ret)

NatalDone == fn = "serve" /\ args.path = "natal" /\ pc = "done" /\ ret.status = 200

\* C14: the chart is computed with the hour, minute and timezone the
\* request supplies, and with hour 12, minute 0 and timezone 0 for the ones
\* it does not supply.
C14_SuppliedTimeIsUsed ==
    NatalDone =>
        LET b == args.body
            hour == IF "hour" \in DOMAIN b THEN b.hour ELSE 12
            minute == IF "minute" \in DOMAIN b THEN b.minute ELSE 0
            timezone == IF "timezone" \in DOMAIN b THEN b.timezone ELSE 0
            jd == toJD(b.year, b.month, b.day) + (60 * hour - timezone + minute) \div 720
        IN  /\ ret.chart.input.hour = hour
            /\ ret.chart.input.minute = minute
            /\ ret.chart.input.timezone = timezone
            /\ \A k \in 1..Len(ret.chart.planets) :
                  ret.chart.planets[k].longitude
                      = Round2(MeanLon("natal", PlanetKeys("natal")[k], jd))

---------------------------------------------------------------------------
(* Calls of getSign / sign on probe longitudes *)

\* Distances (in units) below a sign boundary: the boundary itself, the
\* nearest grid values, the values that Math.round lifts to the next
\* hundredth or tenth, and the middle of the sign.
SignOffsets ==
    {0, 1, -1, -(Deg \div 200), -(Deg \div 200) - 1, -(Deg \div 250),
     -(Deg \div 20), -(Deg \div 20) - 1, -(Deg \div 25), -15 * Deg}

\* Longitudes around every sign boundary of three turns, one of them negative.
ProbeSignLon == {k * 30 * Deg + o : k \in -12..24, o \in SignOffsets}

InitGetSign ==
    /\ pc = "call"
    /\ fn = "getSign"
    /\ \E src \in Sources, l \in ProbeSignLon : args = [src |-> src, lon |-> l]
    /\ loc = NoLoc
    /\ r = <<>>
    /\ ret = NoRet

GetSignCall ==
    /\ pc = "call"
    /\ fn = "getSign"
    /\ ret' = getSign(args.src, args.lon)
    /\ pc' = "done"
    /\ UNCHANGED <<fn, args, loc, r>>

SpecGetSign == InitGetSign /\ [][GetSignCall]_vars

GetSignDone == pc = "done" /\ fn = "getSign"

\* Thirty degrees in the unit of the reported degree: hundredths in
\* part_001, tenths in index.ts.
ThirtyReported(src) == IF src = "natal" THEN 30 * 100 ELSE 30 * 10

\* C15: for every longitude the sign decomposition has signIndex in 0..11
\* and a reported degree d, rounded to two decimals (natal) or one decimal
\* (transits), with 0 <= d < 30.
C15_SignDecomposition ==
    GetSignDone =>
        /\ ret.signIndex \in 0..11
        /\ ret.sign = ZODIAC[ret.signIndex + 1]
        /\ 0 <= ret.degree
        /\ ret.degree < ThirtyReported(args.src)

---------------------------------------------------------------------------
(* Calls of norm and lon on probe arguments *)

\* norm on doubles next to zero.  An argument is [q, e]: the grid value q
\* when e = 0, and for q = 0 the non-zero double e * t with 0 < t <= 2^-45
\* degree, half the spacing of the doubles below 360.  a % 360 is exact
\* and keeps the sign of a; a + 360 is rounded to the nearest double, which
\* for -t is 360 itself.
normDouble(a) ==
    LET x == [q |-> JsRem(a.q, Circle), e |-> a.e]
    IN  IF x.q < 0 \/ (x.q = 0 /\ x.e < 0)
        THEN [q |-> x.q + Circle, e |-> 0]
        ELSE x

\* Arguments of norm: around every multiple of 360 of three turns each
\* way, and the doubles next to zero on both sides.
ProbeNormArgs ==
    {[q |-> k * Circle + o, e |-> 0] :
        k \in -3..3, o \in {0, 1, -1, 30 * Deg, HalfCircle, -HalfCircle}}
    \cup {[q |-> 0, e |-> -1], [q |-> 0, e |-> 1]}

\* Half-day instants before and after J2000, up to about 55 years away.
ProbeNormJd == {J2000 + k * 3653 + j : k \in -11..11, j \in {0, 1}}

InitNorm ==
    /\ pc = "call"
    /\ \/ /\ fn = "norm"
          /\ \E a \in ProbeNormArgs : args = [a |-> a]
       \/ /\ fn = "lon"
          /\ \E src \in Sources :
             \E p \in {PlanetKeys(src)[i] : i \in 1..Len(PlanetKeys(src))} :
             \E jd \in ProbeNormJd :
                args = [src |-> src, p |-> p, jd |-> jd]
    /\ loc = NoLoc
    /\ r = <<>>
    /\ ret = NoRet

NormCall ==
    /\ pc = "call"
    /\ fn = "norm"
    /\ ret' = normDouble(args.a)
    /\ pc' = "done"
    /\ UNCHANGED <<fn, args, loc, r>>

LonCall ==
    /\ pc = "call"
    /\ fn = "lon"
    /\ ret' = lon(args.src, args.p, args.jd)
    /\ pc' = "done"
    /\ UNCHANGED <<fn, args, loc, r>>

SpecNorm == InitNorm /\ [][NormCall \/ LonCall]_vars

\* x lies in [0, 360).
InFirstTurn(x) == (x.q > 0 \/ (x.q = 0 /\ x.e >= 0)) /\ x.q < Circle

\* C16: for every argument, positive, negative or a multiple of 360,
\* norm returns a value of [0, 360) and is idempotent; hence lon returns a
\* value of [0, 360) for every body and Julian Day.
C16_NormRange ==
    /\ (pc = "done" /\ fn = "norm") =>
          /\ InFirstTurn(ret)
          /\ normDouble(ret) = ret
    /\ (pc = "done" /\ fn = "lon") => (0 <= ret /\ ret < Circle)

\* The same on the grid alone, where no addition is rounded.
C16_NormRangeOnGrid ==
    /\ (pc = "done" /\ fn = "norm" /\ args.a.e = 0) =>
          /\ InFirstTurn(ret)
          /\ normDouble(ret) = ret
          /\ ret.q = norm(args.a.q)
    /\ (pc = "done" /\ fn = "lon") => (0 <= ret /\ ret < Circle)

---------------------------------------------------------------------------
(* The shortest-arc separation on longitudes its callers pass *)

\* Half-day instants of the probe longitudes, about 80 days apart.
ProbeSeparationJd == {J2000 + 160 * k + 1 : k \in 0..4}

\* What findAspect, the pair loops and the transit scans are called with:
\* mean longitudes of the bodies, chart longitudes rounded to hundredths
\* (which reach 360.00), and the ends of the circle.
ProbeSeparationLon ==
    {lon("natal", p, jd) : p \in {"sun", "moon", "mars", "saturn"}, jd \in ProbeSeparationJd}
    \cup {(Deg \div 100) * Round2(lon("natal", p, jd)) :
             p \in {"moon", "jupiter"}, jd \in ProbeSeparationJd}
    \cup {0, 1, HalfCircle, HalfCircle + 1, Circle - 1, Circle}

InitSeparation ==
    /\ pc = "call"
    /\ fn = "separation"
    /\ \E a \in ProbeSeparationLon, b \in ProbeSeparationLon :
          args = [lon1 |-> a, lon2 |-> b]
    /\ loc = NoLoc
    /\ r = <<>>
    /\ ret = NoRet

SeparationCall ==
    /\ pc = "call"
    /\ fn = "separation"
    /\ ret' = Separation(args.lon1, args.lon2)
    /\ pc' = "done"
    /\ UNCHANGED <<fn, args, loc, r>>

SpecSeparation == InitSeparation /\ [][SeparationCall]_vars

SeparationDone == pc = "done" /\ fn = "separation"

\* C17: the separation of two longitudes is the shortest arc between
\* them: it lies in [0, 180] and is the same in either argument order.
C17_SeparationSymmetricInRange ==
    SeparationDone =>
        /\ 0 <= ret
        /\ ret <= HalfCircle
        /\ ret = Separation(args.lon2, args.lon1)
        /\ ret = ShortArc(args.lon1, args.lon2)

\* A pair more than half a turn apart, the smaller longitude first.
C17_Witness ==
    /\ SeparationDone
    /\ args.lon1 < args.lon2
    /\ args.lon2 - args.lon1 > HalfCircle
    /\ ret = Circle - (args.lon2 - args.lon1)
    /\ ret > 0

---------------------------------------------------------------------------
(* The four scans together *)

InitScans == InitIngress \/ InitRetro \/ InitAspects \/ InitMoon

NextScans ==
    \/ IngressCall \/ IngressSample \/ IngressNextBody \/ IngressReturn
    \/ RetroCall \/ RetroSample \/ RetroNextBody \/ RetroReturn
    \/ AspectsCall \/ OuterSample \/ OuterNext \/ SunContinue \/ SunEnter
    \/ SunSample \/ SunNext \/ AspectsReturn
    \/ MoonCall \/ MoonSample \/ BisectStep \/ MoonPush \/ MoonReturn

SpecScans == InitScans /\ [][NextScans]_vars

ScanDone ==
    /\ pc = "done"
    /\ fn \in {"calcIngresses", "calcRetrogrades", "calcTransitAspects", "calcMoonPhases"}

\* The reported Julian Day a is not after b.
JdAtMost(a, b) == a[1] < b[1] \/ (a[1] = b[1] /\ a[2] <= b[2])

NonDecreasing(evs) == \A i \in 1..(Len(evs) - 1) : JdAtMost(evs[i].jd, evs[i + 1].jd)

\* C18: the list each scan returns (ingresses, retrogrades, aspects, moon
\* phases) is in non-decreasing order of Julian Day, and holds exactly the
\* events that were found, in whatever order the bodies were scanned.
C18_ReturnedInJdOrder ==
    ScanDone =>
        /\ NonDecreasing(ret.events)
        /\ Len(ret.events) = Len(r)
        /\ \A i \in 1..Len(r) :
              Cardinality({k \in 1..Len(r) : r[k] = r[i]})
                  = Cardinality({k \in 1..Len(r) : ret.events[k] = r[i]})

\* A scan that found its events out of order and returned them in order.
C18_Witness ==
    /\ ScanDone
    /\ fn = "calcIngresses"
    /\ ~NonDecreasing(r)
    /\ NonDecreasing(ret.events)
    /\ Len(ret.events) >= 2

---------------------------------------------------------------------------
(* calcMoonPhases for a year whose Julian Days are at or above 2^52 *)

\* The year parameter of GET /moon-phases is parsed by parseInt and passed
\* on unchecked.  From year 13 * 10^12 on the Julian Days are doubles of
\* 2^52 and more, where the doubles are whole days or coarser and the
\* half-day step of the sampling loop is not exact.
FarYears == {"13000000000000", "100000000000000"}

\* toJD(year, 1, 1) and toJD(year + 1, 1, 1) of a far year as the doubles
\* they are (4748152501721060 and 36524250001721056 for Jan 1 of the two
\* years): ulp is the spacing of the doubles there in half days, span the
\* distance between the two days in spacings, even whether the
\* significand of the first is even.
FarJan1(year) ==
    IF year = "13000000000000"
    THEN [ulp |-> 2, span |-> 366, even |-> TRUE]
    ELSE [ulp |-> 16, span |-> 46, even |-> TRUE]

\* jd + st in doubles, for jd at k spacings from Jan 1 of the far year and
\* st in half days: the exact sum rounded to the nearest double, a tie to
\* the one with the even significand.  The result is again in spacings.
addDouble(year, k, st) ==
    LET ulp == FarJan1(year).ulp
        x == k * ulp + st
        below == x \div ulp
        rest == x % ulp
        belowEven == (below % 2 = 0) = FarJan1(year).even
    IN  IF 2 * rest < ulp THEN below
        ELSE IF 2 * rest > ulp THEN below + 1
        ELSE IF belowEven THEN below ELSE below + 1

\* Sun-Moon angles the doubles may give at Jan 1 of a far year (the mean
\* longitudes have lost all precision there): every quadrant and every
\* target angle.
ProbeFarAngles == {k * 45 * Deg + o : k \in 0..7, o \in {0, 1, 10 * Deg}}

InitMoonPhasesFar ==
    /\ pc = "request"
    /\ fn = "serve"
    /\ \E y \in FarYears, a \in ProbeFarAngles :
          args = [path |-> "moon-phases", year |-> y, angle |-> a]
    /\ loc = NoLoc
    /\ r = <<>>
    /\ ret = NoRet

\* GET /moon-phases?year=...: calcMoonPhases(year) up to the loop head.
\* jd is startJd + 0.5.
MoonPhasesRequest ==
    /\ pc = "request"
    /\ fn = "serve"
    /\ args.path = "moon-phases"
    /\ loc' = [startJd |-> 0, endJd |-> FarJan1(args.year).span,
               prevAngle |-> Angle(args.angle),
               jd |-> addDouble(args.year, 0, 1)]
    /\ pc' = "sample"
    /\ UNCHANGED <<fn, args, r, ret>>

\* The test jd < endJd and the body of the loop at jd = startJd, the only
\* instant the loop reaches: currAngle is the angle prevAngle was taken
\* from.  A crossing would enter findExactPhaseTime; the end of the loop
\* returns the sorted list.
MoonPhasesSample ==
    /\ pc = "sample"
    /\ fn = "serve"
    /\ args.path = "moon-phases"
    /\ loc.jd = loc.startJd
    /\ IF loc.jd < loc.endJd
       THEN LET currAngle == Angle(args.angle)
            IN  IF Crossed(loc.prevAngle, currAngle, 1) = {}
                THEN /\ loc' = [loc EXCEPT !.prevAngle = currAngle]
                     /\ pc' = "step"
                     /\ ret' = ret
                ELSE /\ loc' = loc
                     /\ pc' = "findExactPhaseTime"
                     /\ ret' = ret
       ELSE /\ loc' = loc
            /\ pc' = "done"
            /\ ret' = [status |-> 200, phases |-> sortByJd(r)]
    /\ UNCHANGED <<fn, args, r>>

\* jd += 0.5
MoonPhasesStep ==
    /\ pc = "step"
    /\ fn = "serve"
    /\ args.path = "moon-phases"
    /\ loc' = [loc EXCEPT !.jd = addDouble(args.year, loc.jd, 1)]
    /\ pc' = "sample"
    /\ UNCHANGED <<fn, args, r, ret>>

InitScanLoops == InitScans \/ InitMoonPhasesFar

NextScanLoops == NextScans \/ MoonPhasesRequest \/ MoonPhasesSample \/ MoonPhasesStep

SpecScanLoops == InitScanLoops /\ [][NextScanLoops]_vars

\* A step that ends one pass of a sampling loop, jd += step included.
IsLoopPass ==
    \/ fn \in {"calcIngresses", "calcRetrogrades"} /\ pc = "loop" /\ loc.jd < loc.e
    \/ fn = "calcTransitAspects" /\ pc \in {"outer", "sun"} /\ loc.jd < loc.e
    \/ fn = "calcMoonPhases" /\ pc = "sample" /\ pc' = "sample" /\ loc.jd < loc.endJd
    \/ fn = "serve" /\ pc = "step"

\* C19: every pass of a sampling loop moves the Julian Day forward by a
\* strictly positive amount, so that a loop ends after at most
\* year length / step passes, and the bisection makes at most 50 passes:
\* every scan terminates.
C19_LoopsAdvance ==
    [][/\ IsLoopPass => loc'.jd > loc.jd
       /\ (pc = "bisect" /\ pc' = "bisect") => (loc'.i = loc.i + 1 /\ loc'.i <= 50)]_vars

\* The same for the years whose Julian Days the half-day grid holds.
C19_LoopsAdvanceOnGrid ==
    [][fn # "serve" =>
          /\ IsLoopPass => loc'.jd > loc.jd
          /\ (pc = "bisect" /\ pc' = "bisect") => (loc'.i = loc.i + 1 /\ loc'.i <= 50)]_vars

---------------------------------------------------------------------------
(* Two invocations, first each alone and then interleaved *)

\* The requests and calls that are paired: chart builds (one of them
\* rejected), a year scan and a moon-phase solve.
ChartCalls ==
    LET t == [asc |-> 15 * Deg + 77, mc |-> 283 * Deg]
        ada == [year |-> 1990, month |-> 6, day |-> 15, latitude |-> 40, longitude |-> -74,
                hour |-> 14, timezone |-> 120]
        bob == [year |-> 1985, month |-> 1, day |-> 20, latitude |-> -33, longitude |-> 151,
                name |-> "Bob"]
    IN  {[fn |-> "serve", pc |-> "request", args |-> [path |-> "natal", body |-> b, trig |-> t]] :
            b \in {ada, bob, Without(bob, "day")}}

LongCalls ==
    {[fn |-> "calcIngresses", pc |-> "call", args |-> [src |-> "natal", year |-> 2025]],
     [fn |-> "calcMoonPhases", pc |-> "call", args |-> [year |-> 2025]]}

\* An invocation before its first step: its locals and its event list
\* are created by the call.
frame(c) == [pc |-> c.pc, fn |-> c.fn, args |-> c.args, loc |-> NoLoc, r |-> <<>>, ret |-> NoRet]

\* The running invocation, as it is set aside.
suspended ==
    [pc |-> pc, fn |-> fn, args |-> Without(args, "sched"), loc |-> loc, r |-> r, ret |-> ret]

\* Faulty variant of localsOf: the locals are shared, an invocation
\* resumes with those of the invocation that ran last.
localsShared(f) == loc

\* The locals an invocation resumes with: its own (const and let inside
\* the function bodies; the module level holds constants only).
localsOf(f) == f.loc

\* The invocation f becomes the running one.
Resume(f, sched) ==
    /\ pc' = f.pc
    /\ fn' = f.fn
    /\ args' = f.args @@ [sched |-> sched]
    /\ loc' = localsOf(f)
    /\ r' = f.r
    /\ ret' = f.ret

\* sched.calls are the two invocations; each runs alone first (phase
\* "alone", results kept in sched.alone), then both run interleaved (phase
\* "both"): sched.turn is the running one and sched.other the one set aside.
InitInterleaved ==
    \E c1 \in ChartCalls : \E c2 \in (ChartCalls \cup LongCalls) \ {c1} :
        /\ pc = c1.pc
        /\ fn = c1.fn
        /\ args = c1.args @@ [sched |-> [phase |-> "alone", turn |-> 1, calls |-> <<c1, c2>>,
                                         other |-> frame(c2), alone |-> <<NoRet, NoRet>>]]
        /\ loc = NoLoc
        /\ r = <<>>
        /\ ret = NoRet

\* A run alone has returned: the second invocation runs alone, and after
\* it both start again.
InvokeNext ==
    /\ args.sched.phase = "alone"
    /\ pc = "done"
    /\ LET s == args.sched
           alone == [s.alone EXCEPT ![s.turn] = ret]
       IN  IF s.turn = 1
           THEN Resume(frame(s.calls[2]), [s EXCEPT !.alone = alone, !.turn = 2])
           ELSE Resume(frame(s.calls[1]),
                       [s EXCEPT !.alone = alone, !.turn = 1, !.phase = "both",
                                 !.other = frame(s.calls[2])])

\* The runtime sets the running invocation aside and resumes the other.
Switch ==
    /\ args.sched.phase = "both"
    /\ args.sched.other.pc # "done"
    /\ Resume(args.sched.other,
              [args.sched EXCEPT !.turn = 3 - args.sched.turn, !.other = suspended])

SpecInterleaved ==
    InitInterleaved
    /\ [][\/ InvokeNext \/ Switch
          \/ NatalInput \/ NatalReject \/ NatalCall \/ NatalRespond
          \/ IngressCall \/ IngressSample \/ IngressNextBody \/ IngressReturn
          \/ MoonCall \/ MoonSample \/ BisectStep \/ MoonPush \/ MoonReturn]_vars

---------------------------------------------------------------------------
(* getCurrentMoonPhase (part_001) *)

phaseNames ==
    [new |-> "New Moon", waxing_crescent |-> "Waxing Crescent",
     first_quarter |-> "First Quarter", waxing_gibbous |-> "Waxing Gibbous",
     full |-> "Full Moon", waning_gibbous |-> "Waning Gibbous",
     last_quarter |-> "Last Quarter", waning_crescent |-> "Waning Crescent"]

\* The emoji of a phase, by its code point.
phaseEmojis ==
    [new |-> "U+1F311", waxing_crescent |-> "U+1F312", first_quarter |-> "U+1F313",
     waxing_gibbous |-> "U+1F314", full |-> "U+1F315", waning_gibbous |-> "U+1F316",
     last_quarter |-> "U+1F317", waning_crescent |-> "U+1F318"]

\* 22.5 degrees, in units.
HalfBucket == (45 * Deg) \div 2

\* Faulty variant of phaseOfAngle: the upper bound of a bucket is inclusive.
phaseOfAngleInclusive(angle) ==
    IF ~AngleGt(angle, HalfBucket) \/ AngleGt(angle, 15 * HalfBucket) THEN "new"
    ELSE IF ~AngleGt(angle, 3 * HalfBucket) THEN "waxing_crescent"
    ELSE IF ~AngleGt(angle, 5 * HalfBucket) THEN "first_quarter"
    ELSE IF ~AngleGt(angle, 7 * HalfBucket) THEN "waxing_gibbous"
    ELSE IF ~AngleGt(angle, 9 * HalfBucket) THEN "full"
    ELSE IF ~AngleGt(angle, 11 * HalfBucket) THEN "waning_gibbous"
    ELSE IF ~AngleGt(angle, 13 * HalfBucket) THEN "last_quarter"
    ELSE "waning_crescent"

\* The if / else-if chain on the angle.
phaseOfAngle(angle) ==
    IF AngleLt(angle, HalfBucket) \/ AngleGe(angle, 15 * HalfBucket) THEN "new"
    ELSE IF AngleLt(angle, 3 * HalfBucket) THEN "waxing_crescent"
    ELSE IF AngleLt(angle, 5 * HalfBucket) THEN "first_quarter"
    ELSE IF AngleLt(angle, 7 * HalfBucket) THEN "waxing_gibbous"
    ELSE IF AngleLt(angle, 9 * HalfBucket) THEN "full"
    ELSE IF AngleLt(angle, 11 * HalfBucket) THEN "waning_gibbous"
    ELSE IF AngleLt(angle, 13 * HalfBucket) THEN "last_quarter"
    ELSE "waning_crescent"

\* Math.round(angle / 360 * 29.53 * 10) / 10 in tenths of a day, for an
\* angle on the grid: angle = 24000 * h + l, and 2953 * angle / (10 * Circle)
\* is rounded without leaving 32 bits.
ageDays(angle) ==
    LET h == angle \div 24000
        l == angle % 24000
        c == (2953 * l + 5 * Circle) \div 24000
    IN  (2953 * h + c) \div 3000

\* getCurrentMoonPhase at a grid Julian day.  illumination is the value of
\* Math.round((1 - Math.cos(degToRad(angle))) / 2 * 100), which the model
\* does not compute.
getCurrentMoonPhase(jd, illumination) ==
    LET angle == getSunMoonAngle(Instant(jd))
        phase == phaseOfAngle(angle)
    IN  [phase |-> phase, name |-> phaseNames[phase], emoji |-> phaseEmojis[phase],
         illumination |-> illumination, age_days |-> ageDays(angle.q)]

\* The first 60 half days from the first, and the half days of the 616
\* years after it at which the elongation is within 16 units (0.0008 degree) of
\* an odd multiple of 22.5 degrees: the grid elongations are 16 units apart.
ProbePhaseJd(first) ==
    (first..(first + 60))
    \cup {jd \in first..(first + 450000) :
             LET a == getSunMoonAngle(Instant(jd)).q
                 d == (a + HalfBucket) % (2 * HalfBucket)
             IN  d <= 16 \/ d >= 2 * HalfBucket - 16}

InitMoonPhaseNow ==
    /\ pc = "call"
    /\ fn = "getCurrentMoonPhase"
    /\ \E jd \in ProbePhaseJd(J2000), i \in {0, 50, 100} : args = [jd |-> jd, illumination |-> i]
    /\ loc = NoLoc
    /\ r = <<>>
    /\ ret = NoRet

CurrentMoonPhaseCall ==
    /\ pc = "call"
    /\ fn = "getCurrentMoonPhase"
    /\ ret' = getCurrentMoonPhase(args.jd, args.illumination)
    /\ pc' = "done"
    /\ UNCHANGED <<fn, args, loc, r>>

SpecMoonPhaseNow == InitMoonPhaseNow /\ [][CurrentMoonPhaseCall]_vars

\* The eight phases in the order of their buckets, from the one around 0.
PhaseOrder ==
    <<"new", "waxing_crescent", "first_quarter", "waxing_gibbous",
      "full", "waning_gibbous", "last_quarter", "waning_crescent">>

MoonPhaseNowDone == pc = "done" /\ fn = "getCurrentMoonPhase"

\* C21: every elongation of [0, 360) gets exactly one of the eight phases:
\* new below 22.5 and from 337.5 on, then the seven others for the
\* successive 45-degree buckets from 22.5, lower bound inclusive and upper
\* bound exclusive.
C21_EightPhaseBuckets ==
    MoonPhaseNowDone =>
        LET a == ElongationAt(Instant(args.jd)).q
            bucket == ((a + HalfBucket) \div (2 * HalfBucket)) % 8
        IN  /\ 0 <= a /\ a < Circle
            /\ ret.phase = PhaseOrder[bucket + 1]
            /\ Cardinality({k \in 1..8 : PhaseOrder[k] = ret.phase}) = 1
            /\ ret.name = phaseNames[ret.phase]

\* An elongation of exactly 337.5 degrees is new, and one of exactly 22.5
\* degrees is waxing crescent.
C21_Witness ==
    /\ MoonPhaseNowDone
    /\ ElongationAt(Instant(args.jd)).q \in {HalfBucket, 15 * HalfBucket}
    /\ ret.phase = IF ElongationAt(Instant(args.jd)).q = HalfBucket
                   THEN "waxing_crescent" ELSE "new"

---------------------------------------------------------------------------
(* The aspect definitions the scanners detect with *)

\* The aspect definitions of the README and of the schema of the API.
DocumentedAspects ==
    [conjunction |-> [angle |-> 0, orb |-> 8], sextile |-> [angle |-> 60, orb |-> 4],
     square |-> [angle |-> 90, orb |-> 6], trine |-> [angle |-> 120, orb |-> 6],
     opposition |-> [angle |-> 180, orb |-> 8]]

\* C22: every module that detects aspects uses conjunction 0 with orb 8,
\* sextile 60 with orb 4, square 90 with orb 6, trine 120 with orb 6 and
\* opposition 180 with orb 8: a sample of an outer pair is held in orb
\* exactly when its separation is within that orb of that angle.
C22_DocumentedOrbs ==
    [][(IsAspectSample /\ pc = "outer") =>
          LET c == CurrentLoop
              sep == ShortArc(MeanLon(c.src, c.a, loc.jd), MeanLon(c.src, c.b, loc.jd))
              doc == DocumentedAspects[c.n]
          IN  loc'.io = (Abs(sep - doc.angle * Deg) <= doc.orb * Deg)]_vars

\* The same for the table of part_001 alone.
C22_DocumentedOrbsNatal ==
    [][(IsAspectSample /\ pc = "outer" /\ args.src = "natal") =>
          LET c == CurrentLoop
              sep == ShortArc(MeanLon(c.src, c.a, loc.jd), MeanLon(c.src, c.b, loc.jd))
              doc == DocumentedAspects[c.n]
          IN  loc'.io = (Abs(sep - doc.angle * Deg) <= doc.orb * Deg)]_vars

---------------------------------------------------------------------------
(* Calls of getHouse with the house list of the same ascendant *)

\* Longitudes at the start, the middle and the last unit of every sign,
\* and the same one turn below and one turn above.
ProbeHouseLon ==
    {t * Circle + sg * 30 * Deg + o : t \in {-1, 0, 1}, sg \in 0..11,
                                      o \in {0, 15 * Deg, 30 * Deg - 1}}

ProbeHouseAsc == {sg * 30 * Deg + o : sg \in 0..11, o \in {0, 30 * Deg - 1}}

InitGetHouse ==
    /\ pc = "call"
    /\ fn = "getHouse"
    /\ \E l \in ProbeHouseLon, a \in ProbeHouseAsc : args = [planetLon |-> l, ascendant |-> a]
    /\ loc = NoLoc
    /\ r = <<>>
    /\ ret = NoRet

\* The houses and one planet's house of a chart.
GetHouseCall ==
    /\ pc = "call"
    /\ fn = "getHouse"
    /\ ret' = [houses |-> housesOf(args.ascendant),
               house |-> getHouse(args.planetLon, args.ascendant)]
    /\ pc' = "done"
    /\ UNCHANGED <<fn, args, loc, r>>

SpecGetHouse == InitGetHouse /\ [][GetHouseCall]_vars

GetHouseDone == pc = "done" /\ fn = "getHouse"

\* C23: getHouse is (body sign index - ascendant sign index + 12) mod 12
\* + 1: a whole number of 1..12, 1 exactly when the body is in the
\* ascendant's sign, and the house of that number in the whole-sign list
\* of the same ascendant carries the body's sign.
C23_HousePlacement ==
    GetHouseDone =>
        LET body == SegmentOf(args.planetLon % Circle)
            asc == SegmentOf(args.ascendant % Circle)
        IN  /\ ret.house \in 1..12
            /\ ret.house = ((body - asc + 12) % 12) + 1
            /\ (ret.house = 1) = (body = asc)
            /\ ret.houses[ret.house].house = ret.house
            /\ ret.houses[ret.house].sign = ZODIAC[body + 1]

\* A body in Aries under an ascendant in Pisces is in the second house.
C23_Witness ==
    /\ GetHouseDone
    /\ args.planetLon = 15 * Deg - Circle
    /\ args.ascendant = Circle - 1
    /\ ret.house = 2
    /\ ret.houses[2].sign = "Aries"

---------------------------------------------------------------------------
(* Station events of one body: alternation and pairing *)

\* The step from sample i to sample i + 1 of a position sequence is forward.
Forward(ps, i) == Direction(ps[i], ps[i + 1]) = "direct"

\* The samples at which the direction of travel differs from the direction
\* of the step before: into backward motion, and back into forward motion.
TurnsBack(ps) == {i \in 3..Len(ps) : Forward(ps, i - 2) /\ ~Forward(ps, i - 1)}
TurnsForward(ps) == {i \in 3..Len(ps) : ~Forward(ps, i - 2) /\ Forward(ps, i - 1)}

\* The samples turning forward that come after a sample turning back.
PairedTurnsForward(ps) ==
    {i \in TurnsForward(ps) : \E j \in TurnsBack(ps) : j < i}

\* C24: the station events of a body alternate start, end, start, end, ...
\* beginning with a start. There is one start per turn into backward motion
\* and one end per turn into forward motion that follows a start; a turn
\* into forward motion with no start before it emits nothing, each end
\* belongs to the start just before it, and a start with no turn after it
\* stays without an end.
C24_StationsAlternate ==
    RetroLoopDone =>
        LET evs == ret.events
            ps == args.positions
        IN  /\ \A i \in 1..Len(evs) :
                  /\ evs[i].body = PLANETS(args.src)[args.k].name
                  /\ IF i % 2 = 1 THEN IsStart(evs[i]) ELSE IsEnd(evs[i])
            /\ \A i \in 1..(Len(evs) - 1) : JdLess(evs[i].jd, evs[i + 1].jd)
            /\ {ev.jd : ev \in {evs[i] : i \in {j \in 1..Len(evs) : IsStart(evs[j])}}}
                   = {RoundJd2(SampleJd(i)) : i \in TurnsBack(ps)}
            /\ {ev.jd : ev \in {evs[i] : i \in {j \in 1..Len(evs) : IsEnd(evs[j])}}}
                   = {RoundJd2(SampleJd(i)) : i \in PairedTurnsForward(ps)}
            /\ Count(evs, IsStart) = Cardinality(TurnsBack(ps))
            /\ Count(evs, IsEnd) = Cardinality(PairedTurnsForward(ps))

\* The same while the loop runs, on the events pushed so far: an end is
\* pushed only while a start is remembered, and forgets it.
C24_EndNeedsStart ==
    [][(fn = "retrogradeLoop" /\ pc = "loop" /\ Len(r') > Len(r)) =>
          LET ev == r'[Len(r')]
          IN  /\ Len(r') = Len(r) + 1
              /\ IsEnd(ev) => (loc.sJd # Null /\ loc'.sJd = Null
                               /\ Len(r) > 0 /\ IsStart(r[Len(r)]))
              /\ IsStart(ev) => (loc'.sJd = loc.jd
                                 /\ (Len(r) > 0 => IsEnd(r[Len(r)])))]_vars

\* Backward, forward, backward, forward: the first turn forward has no
\* start to close and emits nothing; the start and the end that follow are
\* the whole list.
C24_Witness ==
    /\ RetroLoopDone
    /\ ~Forward(args.positions, 1) /\ Forward(args.positions, 2)
    /\ ~Forward(args.positions, 3) /\ Forward(args.positions, 4)
    /\ Len(ret.events) = 2
    /\ IsStart(ret.events[1]) /\ ret.events[1].jd = RoundJd2(SampleJd(4))
    /\ IsEnd(ret.events[2]) /\ ret.events[2].jd = RoundJd2(SampleJd(5))

---------------------------------------------------------------------------
(* The retrograde scan over the mean-motion table *)

\* The delta from longitude pL to longitude l taken into (-180, 180].
UnwrappedDelta(l, pL) ==
    LET fwd == (l - pL) % Circle
    IN  IF fwd > HalfCircle THEN fwd - Circle ELSE fwd

\* The body the retrograde scan is sampling.
RetroKey == RetroKeys(args.src)[loc.ki]

C25_EmptyList ==
    (fn = "calcRetrogrades" /\ pc = "done") => ret.events = <<>>

---------------------------------------------------------------------------
(* The orb windows of the two ASPECTS tables *)

\* The window [angle - orb, angle + orb] of an entry, cut to [0, 180].
WindowLo(src, n) == Max({0, ASPECTS(src)[n].angle - ASPECTS(src)[n].orb})
WindowHi(src, n) == Min({180, ASPECTS(src)[n].angle + ASPECTS(src)[n].orb})

\* Distance of a separation from the angle of an entry of the part_001 table.
Deviation(sep, n) == Abs(sep - ASPECTS("natal")[n].angle * Deg)

\* C26: in each of the two ASPECTS tables the five windows
\* [angle - orb, angle + orb] are pairwise disjoint on [0, 180]; at most one
\* entry holds any separation, and the entry findAspect returns, the first
\* in table order, is the one whose angle is strictly closest to the
\* separation.
C26_WindowsDisjoint ==
    FindAspectDone =>
        LET sep == ShortArc(args.lon1, args.lon2)
        IN  /\ \A src \in Sources : \A a, b \in DOMAIN ASPECTS(src) :
                  a # b => \/ WindowHi(src, a) < WindowLo(src, b)
                           \/ WindowHi(src, b) < WindowLo(src, a)
            /\ Cardinality(MatchingAspects(sep)) <= 1
            /\ ret.aspect # "null" =>
                  /\ MatchingAspects(sep) = {i \in 1..Len(AspectKeys) : AspectKeys[i] = ret.aspect}
                  /\ \A n \in DOMAIN ASPECTS("natal") :
                        n # ret.aspect => Deviation(sep, n) > Deviation(sep, ret.aspect)

\* A separation of 64 degrees, the edge of the sextile window next to the
\* square: the sextile alone holds it.
C26_Witness ==
    /\ FindAspectDone
    /\ ShortArc(args.lon1, args.lon2) = 64 * Deg
    /\ ret.aspect = "sextile"
    /\ Deviation(64 * Deg, "square") > ASPECTS("natal")["square"].orb * Deg

---------------------------------------------------------------------------
(* Ingresses across the turn of the year *)

\* The last instant s + n * st before e.
LastSample(s, e, st) == s + ((e - s - 1) \div st) * st

\* The last sample of a body in the ingress scan of a year.
LastIngressSample(src, k, year) ==
    LastSample(toJD(year, 1, 1), toJD(year + 1, 1, 1), stepOf(src, k))

\* The body's sign at the last sample of a year differs from its sign at
\* Jan 1 of the next year.
TurnsSignAtYearEnd(src, k, year) ==
    SignName(MeanLon(src, k, LastIngressSample(src, k, year)))
        # SignName(MeanLon(src, k, toJD(year + 1, 1, 1)))

IngressDone == pc = "done" /\ fn = "calcIngresses"

\* The events of a body in the returned list, in order.
IngressesOf(name) == SelectSeq(ret.events, LAMBDA ev : ev.body = name)

\* C27: the ingress scan of a year starts each body with no previous sign
\* and samples Jan 1 + k * step only while that is before Jan 1 of the next
\* year.  Every event of a body lies after the body's first sample and not
\* after its last one, and the first event leaves the sign of Jan 1: a sign
\* change between the last sample of a year and Jan 1 of the next is in
\* neither year's list.
C27_YearBoundaryGap ==
    IngressDone =>
        \A i \in 1..Len(PlanetKeys(args.src)) :
            LET k == PlanetKeys(args.src)[i]
                evs == IngressesOf(PLANETS(args.src)[k].name)
                s == toJD(args.year, 1, 1)
                last == LastIngressSample(args.src, k, args.year)
                before == LastIngressSample(args.src, k, args.year - 1)
            IN  /\ \A j \in 1..Len(evs) :
                      /\ JdLess(RoundJd2(s), evs[j].jd)
                      /\ JdAtMost(evs[j].jd, RoundJd2(last))
                /\ Len(evs) > 0 => evs[1].from = SignName(MeanLon(args.src, k, s))
                /\ TurnsSignAtYearEnd(args.src, k, args.year) =>
                      /\ evs # <<>> =>
                            evs[Len(evs)].to = SignName(MeanLon(args.src, k, last))
                      /\ ~\E j \in 1..Len(evs) :
                            /\ evs[j].to = SignName(MeanLon(args.src, k, toJD(args.year + 1, 1, 1)))
                            /\ JdLess(RoundJd2(last), evs[j].jd)
                /\ TurnsSignAtYearEnd(args.src, k, args.year - 1) =>
                      ~\E j \in 1..Len(evs) :
                            /\ evs[j].from = SignName(MeanLon(args.src, k, before))
                            /\ JdAtMost(evs[j].jd, RoundJd2(s))

\* The Moon is in Taurus at the last sample of 2025 (Dec 31, 12:00) and in
\* Gemini at Jan 1 of 2026: the list of 2025 ends with the Moon entering
\* Taurus.
C27_Witness ==
    /\ IngressDone
    /\ args.year = 2025
    /\ TurnsSignAtYearEnd(args.src, "moon", 2025)
    /\ SignName(MeanLon(args.src, "moon", toJD(2026, 1, 1))) = "Gemini"
    /\ LET evs == IngressesOf("Moon")
       IN  /\ evs[Len(evs)].to = "Taurus"
           /\ \A j \in 1..Len(evs) :
                 JdAtMost(evs[j].jd, RoundJd2(LastIngressSample(args.src, "moon", 2025)))

\* The list of 2026 starts the Moon in Gemini: its first event leaves Gemini.
C27_WitnessNextYear ==
    /\ IngressDone
    /\ args.year = 2026
    /\ TurnsSignAtYearEnd(args.src, "moon", 2025)
    /\ IngressesOf("Moon")[1].from = "Gemini"

---------------------------------------------------------------------------
(* Moon phases across the turn of the year *)

\* The elongation gained in half a day, in units.
HalfDayGain == PLANETS("natal")["moon"].motion - PLANETS("natal")["sun"].motion

\* The elongation passes the target angle after the grid half day jd - 0.5
\* and not after jd.
CrossesIn(jd, targetAngle) ==
    (targetAngle * Deg - ElongationAt(Instant(jd - 1)).q - 1) % Circle < HalfDayGain

\* A grid half day as <<days, thousandths>>.
HalfDay3(jd) == <<jd \div 2, 500 * (jd % 2)>>

MoonDone == pc = "done" /\ fn = "calcMoonPhases"

\* The half days of the year whose bracket calcMoonPhases examines for a
\* phase, and those among them the phase falls in.
YearBrackets == (toJD(args.year, 1, 1) + 1)..(toJD(args.year + 1, 1, 1) - 1)
CrossingBrackets(p) == {jd \in YearBrackets : CrossesIn(jd, MOON_PHASE_ANGLES[p])}

\* The events of a phase dated within [jd - 0.5, jd].
EventsIn(p, jd) ==
    {i \in 1..Len(ret.events) :
        /\ ret.events[i].phase = p
        /\ JdAtMost(HalfDay3(jd - 1), ret.events[i].jd)
        /\ JdAtMost(ret.events[i].jd, HalfDay3(jd))}

C28_WitnessNextYear ==
    /\ MoonDone
    /\ args.year = 2027
    /\ CrossesIn(toJD(2027, 1, 1), 270)
    /\ EventsIn("last_quarter", toJD(2027, 1, 1)) = {}
    /\ ret.events[1].phase = "new"

---------------------------------------------------------------------------
(* Ingress events follow the order of the zodiac *)

\* The sign after a sign.
NextSign(sg) == ZODIAC[((CHOOSE i \in 1..12 : ZODIAC[i] = sg) % 12) + 1]

\* C29: every body tracked moves less than 30 degrees per ingress step, so
\* every ingress event goes from a sign to the sign right after it, and of
\* two consecutive ingress events of a body in a year the second leaves the
\* sign the first one entered: no sign is skipped.
C29_NoSignSkipped ==
    IngressDone =>
        \A i \in 1..Len(PlanetKeys(args.src)) :
            LET k == PlanetKeys(args.src)[i]
                evs == IngressesOf(PLANETS(args.src)[k].name)
            IN  /\ PLANETS(args.src)[k].motion * stepOf(args.src, k) < 30 * Deg
                /\ \A j \in 1..Len(evs) : evs[j].to = NextSign(evs[j].from)
                /\ \A j \in 1..(Len(evs) - 1) :
                      /\ evs[j + 1].from = evs[j].to
                      /\ JdLess(evs[j].jd, evs[j + 1].jd)

\* The same at each push: the sign entered is the successor of the sign of
\* the sample one step earlier.
C29_SuccessorAtPush ==
    [][(IsIngressSample /\ Len(r') > Len(r)) =>
          /\ r'[Len(r')].from = loc.prev
          /\ r'[Len(r')].to = NextSign(loc.prev)]_vars

\* The Moon, the fastest body, has gone once around in the list of 2025:
\* Pisces to Aries is among its events and all twelve signs are entered.
C29_Witness ==
    /\ IngressDone
    /\ args.year = 2025
    /\ LET evs == IngressesOf("Moon")
       IN  /\ \E j \in 1..Len(evs) : evs[j].from = "Pisces" /\ evs[j].to = "Aries"
           /\ {evs[j].to : j \in 1..Len(evs)} = {ZODIAC[i] : i \in 1..12}
           /\ Len(evs) > 150

---------------------------------------------------------------------------
(* Aspect runs at the ends of the scanned year *)

\* The sample loops of the aspect scan of a year, as CurrentLoop has them.
AspectLoops(src, year) ==
    {[src |-> src, a |-> outer(src)[i], b |-> outer(src)[j], n |-> AspectKeys[ai],
      corridor |-> ASPECTS(src)[AspectKeys[ai]].orb * Deg,
      s |-> toJD(year, 1, 1), st |-> 2] :
        i \in 1..Len(outer(src)), j \in 1..Len(outer(src)), ai \in 1..Len(AspectKeys)}
    \cup {[src |-> src, a |-> "sun", b |-> outer(src)[p], n |-> n,
           corridor |-> 3 * Deg, s |-> toJD(year, 1, 1), st |-> 1] :
             p \in 1..Len(outer(src)), n \in {"conjunction", "square", "opposition"}}

\* The position of a body in the list of outer bodies; 0 for the Sun.
OuterIndex(src, k) ==
    IF k = "sun" THEN 0 ELSE CHOOSE i \in 1..Len(outer(src)) : outer(src)[i] = k

\* The loops the scan runs: the pairs taken once, in list order.
ScannedLoops(src, year) ==
    {c \in AspectLoops(src, year) : OuterIndex(src, c.a) < OuterIndex(src, c.b)}

\* The last sample of a loop before Jan 1 of the next year.
LastOf(c, year) == LastSample(c.s, toJD(year + 1, 1, 1), c.st)

\* The out-of-orb samples of a loop that follow an in-orb sample.
Transitions(c, year) ==
    {jd \in (c.s + c.st)..LastOf(c, year) :
        (jd - c.s) % c.st = 0 /\ ~InOrbAt(c, jd) /\ InOrbAt(c, jd - c.st)}

\* The events of a loop in the returned list.
EventsOfLoop(c) ==
    {i \in 1..Len(ret.events) :
        /\ ret.events[i].body1 = PLANETS(c.src)[c.a].name
        /\ ret.events[i].body2 = PLANETS(c.src)[c.b].name
        /\ ret.events[i].aspect = c.n}

AspectsDone == pc = "done" /\ fn = "calcTransitAspects"

\* C30: the aspect scan of a year emits one event per in-orb run that an
\* out-of-orb sample of the same year ends, dated at the best sample of the
\* run among the samples of that year, and nothing else: a run still in orb
\* at the last sample of the year has no event in the year's list, a run
\* that began before Jan 1 is judged from Jan 1 on, and a pair in orb at
\* every sample of the year has no event at all.
C30_OpenRunsEmitNothing ==
    AspectsDone =>
        \A c \in ScannedLoops(args.src, args.year) :
            LET last == LastOf(c, args.year)
                evs == EventsOfLoop(c)
            IN  /\ Cardinality(evs) = Cardinality(Transitions(c, args.year))
                /\ \A jd \in Transitions(c, args.year) :
                      \E i \in evs :
                          ret.events[i].jd = RoundJd2(RunBest(c, jd - c.st))
                /\ \A i \in evs : JdAtMost(RoundJd2(c.s), ret.events[i].jd)
                /\ InOrbAt(c, last) =>
                      \A i \in evs : JdLess(ret.events[i].jd, RoundJd2(RunFirst(c, last)))
                /\ (\A jd \in c.s..last : (jd - c.s) % c.st = 0 => InOrbAt(c, jd)) => evs = {}

\* No step that ends a sample loop pushes an event, whatever the flag.
C30_LoopEndPushesNothing ==
    [][(fn = "calcTransitAspects" /\ pc \in {"outer", "sun"} /\ loc.jd >= loc.e) =>
          r' = r]_vars

\* The scan of 2025 of part_001 is done: Saturn and Neptune were in
\* conjunction at every sample and Jupiter and Saturn were still in square
\* at the last one; neither pair has an event of that aspect.
C30_Witness ==
    /\ AspectsDone
    /\ args = [src |-> "natal", year |-> 2025]
    /\ \E c \in ScannedLoops("natal", 2025) :
          /\ c.a = "saturn" /\ c.b = "neptune" /\ c.n = "conjunction"
          /\ \A jd \in c.s..LastOf(c, 2025) : (jd - c.s) % c.st = 0 => InOrbAt(c, jd)
          /\ EventsOfLoop(c) = {}
    /\ \E c \in ScannedLoops("natal", 2025) :
          /\ c.a = "jupiter" /\ c.b = "saturn" /\ c.n = "square"
          /\ InOrbAt(c, LastOf(c, 2025)) /\ ~InOrbAt(c, c.s)
          /\ EventsOfLoop(c) = {}

\* The scan of 2026 of part_001 is done: the square of Jupiter and Saturn
\* that was open at the end of 2025 has its event, dated within 2026.
C30_WitnessNextYear ==
    /\ AspectsDone
    /\ args = [src |-> "natal", year |-> 2026]
    /\ \E c \in ScannedLoops("natal", 2026) :
          /\ c.a = "jupiter" /\ c.b = "saturn" /\ c.n = "square"
          /\ InOrbAt(c, c.s)
          /\ Cardinality(EventsOfLoop(c)) = 1
          /\ \A i \in EventsOfLoop(c) : JdAtMost(RoundJd2(c.s), ret.events[i].jd)

====
